---- MODULE Spec2Model ----
(***************************************************************************)
(* Model of the daneel assistant pipeline: the fallback graph engine       *)
(* (graph_builder.py: StateGraph / CompiledGraph.ainvoke / _guarded), the  *)
(* eighteen pipeline steps (nodes.py), the in-memory collaborators         *)
(* (clients.py) and the default tool registry (tooling.py).                *)
(*                                                                         *)
(* Conventions.                                                            *)
(*  - A Python dict is a TLA+ function whose DOMAIN is the set of keys     *)
(*    present; an absent key is a key outside the DOMAIN.                  *)
(*  - Enum members are modelled by their .value strings.                   *)
(*  - Floats are modelled in hundredths: 1.0 is 100, 0.65 is 65.           *)
(*  - Python strings are TLA+ strings; substring tests, lower() and        *)
(*    strip() are computed character by character.                         *)
(***************************************************************************)
EXTENDS Integers, Sequences, FiniteSets, TLC

VARIABLES
    graph,      \* the StateGraph handed to CompiledGraph (nodes, edges, ...)
    ctxOf,      \* run -> the NodeContext its pipeline was built with
    tools,      \* ctx -> names registered in ctx.tools
    memobase,   \* ctx -> InMemoryMemobaseClient._records
    ragdoll,    \* ctx -> InMemoryRagdollClient._collections
    graphdb,    \* ctx -> InMemoryGraphClient (_entities, _relationships, _doc_refs)
    now,        \* the wall clock read by time.time()
    status,     \* run -> "idle" | "running" | "returned" | "raised"
    initial,    \* run -> the state the run was started with
    state,      \* run -> the GraphState dict threaded through ainvoke
    current,    \* run -> the cursor of ainvoke
    trace,      \* run -> the names of the steps executed so far, in order
    calls,      \* run -> the collaborator and tool calls made so far, in order
    error,      \* run -> the exception that left ainvoke, or None
    running     \* the run holding the event loop (0: none)

vars == <<graph, ctxOf, tools, memobase, ragdoll, graphdb, now, status,
          initial, state, current, trace, calls, error, running>>

(***************************************************************************)
(* Bounds of the model.                                                    *)
(***************************************************************************)
NumRuns == 2
MaxClock == 1
MaxLen == 3
MaxScore == 2
MaxRecords == 2

Runs == 1..NumRuns
Ctxs == 1..NumRuns

(***************************************************************************)
(* Python values.                                                          *)
(***************************************************************************)
\* Python's None where a string is expected (state.get of an absent key).
None == "<None>"

EmptyDict == <<>>

Has(d, k) == k \in DOMAIN d

\* dict.get(k, default)
Get(d, k, default) == IF k \in DOMAIN d THEN d[k] ELSE default

\* d[k] = v
Put(d, k, v) == [f \in (DOMAIN d) \cup {k} |-> IF f = k THEN v ELSE d[f]]

\* `x or default` for an optional string
OrElse(x, default) == IF x = None \/ x = "" THEN default ELSE x

Min(a, b) == IF a <= b THEN a ELSE b

\* needle in haystack
Contains(haystack, needle) ==
    \E i \in 1..(Len(haystack) - Len(needle) + 1) :
        SubSeq(haystack, i, i + Len(needle) - 1) = needle

LowerChar(c) ==
    CASE c = "A" -> "a" [] c = "B" -> "b" [] c = "C" -> "c" [] c = "D" -> "d"
      [] c = "E" -> "e" [] c = "F" -> "f" [] c = "G" -> "g" [] c = "H" -> "h"
      [] c = "I" -> "i" [] c = "J" -> "j" [] c = "K" -> "k" [] c = "L" -> "l"
      [] c = "M" -> "m" [] c = "N" -> "n" [] c = "O" -> "o" [] c = "P" -> "p"
      [] c = "Q" -> "q" [] c = "R" -> "r" [] c = "S" -> "s" [] c = "T" -> "t"
      [] c = "U" -> "u" [] c = "V" -> "v" [] c = "W" -> "w" [] c = "X" -> "x"
      [] c = "Y" -> "y" [] c = "Z" -> "z" [] OTHER -> c

RECURSIVE Lower(_)
\* str.lower()
Lower(s) ==
    IF s = "" THEN ""
    ELSE LowerChar(SubSeq(s, 1, 1)) \o Lower(SubSeq(s, 2, Len(s)))

IsSpace(c) == c \in {" ", "\t", "\n", "\r"}

RECURSIVE LStrip(_)
LStrip(s) ==
    IF s # "" /\ IsSpace(SubSeq(s, 1, 1)) THEN LStrip(SubSeq(s, 2, Len(s))) ELSE s

RECURSIVE RStrip(_)
RStrip(s) ==
    IF s # "" /\ IsSpace(SubSeq(s, Len(s), Len(s)))
    THEN RStrip(SubSeq(s, 1, Len(s) - 1)) ELSE s

\* str.strip()
Strip(s) == RStrip(LStrip(s))

\* sha256(text).hexdigest()[:12], kept symbolic: equal texts give equal
\* digests; the digest stands for a string of twelve hexadecimal digits and
\* is written so that it differs from every text the model handles.
_short_hash(text) == "sha256[" \o text \o "]"

IsHexDigit(c) ==
    c \in {"0", "1", "2", "3", "4", "5", "6", "7", "8", "9",
           "a", "b", "c", "d", "e", "f"}

\* query.lower() in digest.lower(): the empty string is in every digest; a
\* string with a character that is not a hexadecimal digit is in none.  No
\* request of the model is a non-empty string of hexadecimal digits, the one
\* case the symbolic digest leaves open.
InDigest(q, digest) ==
    IF q = "" THEN TRUE
    ELSE IF \E i \in 1..Len(q) : ~IsHexDigit(SubSeq(q, i, i)) THEN FALSE
    ELSE FALSE

(***************************************************************************)
(* models.py                                                               *)
(***************************************************************************)
STORE_ONLY == "store_only"
TRANSFORM_AND_STORE == "transform_and_store"
ACT_NOW == "act_now"
ACT_AND_STORE == "act_and_store"
InteractionKind == {STORE_ONLY, TRANSFORM_AND_STORE, ACT_NOW, ACT_AND_STORE}

MEMORY_PERSONAL == "memory_personal"
FACT_LOOKUP == "fact_lookup"
MULTI_HOP == "multi_hop_reasoning"
MIXED == "mixed"
RetrievalIntent == {MEMORY_PERSONAL, FACT_LOOKUP, MULTI_HOP, MIXED}

DEFAULT_TOPICS == <<"work", "projects", "family", "personal_admin">>

(***************************************************************************)
(* nodes.py: the synchronous steps.                                        *)
(***************************************************************************)
vector_collection_prefix == "daneel"

\* transform_for_storage keeps the first SummaryLimit characters
SummaryLimit == 500
\* the k / max_docs handed to the three retrieval calls
K == 5
\* strength of a written record and score of an in-memory hit: 1.0
Strength == 100
\* topic_confidence with and without a matching topic: 0.65, 0.35
ConfidenceHit == 65
ConfidenceMiss == 35

\* the store-only test spelt with a hyphen, which no query of that kind has
classify_interaction_NoStoreOnly(s) ==
    LET query == Lower(Get(s, "query", ""))
        kind == IF Contains(query, "store-only") THEN STORE_ONLY
                ELSE IF Contains(query, "store") /\ Contains(query, "summarize")
                     THEN TRANSFORM_AND_STORE
                ELSE IF Contains(query, "remind") \/ Contains(query, "now")
                     THEN ACT_NOW
                ELSE ACT_AND_STORE
    IN  Put(s, "interaction_kind", kind)

classify_interaction(s) ==
    LET query == Lower(Get(s, "query", ""))
        kind == IF Contains(query, "store only") THEN STORE_ONLY
                ELSE IF Contains(query, "store") /\ Contains(query, "summarize")
                     THEN TRANSFORM_AND_STORE
                ELSE IF Contains(query, "remind") \/ Contains(query, "now")
                     THEN ACT_NOW
                ELSE ACT_AND_STORE
    IN  Put(s, "interaction_kind", kind)

normalise_input(s) == Put(s, "query", Strip(Get(s, "query", "")))

detect_ingestion_type(s) ==
    LET query == Lower(Get(s, "query", ""))
        ingestion == IF Contains(query, "task") \/ Contains(query, "todo") THEN "task"
                     ELSE IF Contains(query, "call") \/ Contains(query, "meeting")
                          THEN "transcript"
                     ELSE IF Contains(query, "contact") THEN "contact"
                     ELSE "note"
    IN  Put(s, "ingestion_type", ingestion)

transform_for_storage(s, t) ==
    LET text == Get(s, "query", "")
        truncated == SubSeq(text, 1, Min(Len(text), SummaryLimit))
        summary == IF Len(text) <= SummaryLimit THEN truncated ELSE truncated \o "..."
        metadata == [summary |-> summary,
                     length |-> Len(text),
                     created_at |-> t,
                     ingestion_type |-> Get(s, "ingestion_type", None)]
    IN  Put(s, "metadata", metadata)

classify_topic(s) ==
    LET query == Lower(Get(s, "query", ""))
        candidates == SelectSeq(DEFAULT_TOPICS, LAMBDA topic : Contains(query, topic))
        primary == IF candidates # <<>> THEN candidates[1] ELSE "general"
    IN  Put(Put(Put(s,
            "topic_candidates", IF candidates # <<>> THEN candidates ELSE <<"general">>),
            "primary_topic", primary),
            "topic_confidence", IF candidates # <<>> THEN ConfidenceHit ELSE ConfidenceMiss)

classify_intent(s) ==
    LET query == Lower(Get(s, "query", ""))
        intent == IF \E word \in {"who", "what", "when", "where"} : Contains(query, word)
                  THEN FACT_LOOKUP
                  ELSE IF Contains(query, "how") \/ Contains(query, "why") THEN MULTI_HOP
                  ELSE IF Contains(query, "remember") \/ Contains(query, "recall")
                       THEN MEMORY_PERSONAL
                  ELSE MIXED
    IN  Put(s, "retrieval_intent", intent)

\* a routing that asks for memory retrieval whatever the intent
route_retrieval_MemoryAlways(s) ==
    LET intent == Get(s, "retrieval_intent", MEMORY_PERSONAL)
    IN  Put(Put(Put(s,
            "need_memobase", TRUE),
            "need_vector", intent \in {FACT_LOOKUP, MIXED, MULTI_HOP}),
            "need_graph", intent \in {MULTI_HOP, MIXED})

route_retrieval(s) ==
    LET intent == Get(s, "retrieval_intent", MEMORY_PERSONAL)
    IN  Put(Put(Put(s,
            "need_memobase", intent \in {MEMORY_PERSONAL, MIXED}),
            "need_vector", intent \in {FACT_LOOKUP, MIXED, MULTI_HOP}),
            "need_graph", intent \in {MULTI_HOP, MIXED})

\* chunk.get("score", 0)
ScoreOf(c) == Get(c, "score", 0)

RECURSIVE InsertDesc_TiesFirst(_, _)
\* an insertion that puts x in front of the elements of equal score
InsertDesc_TiesFirst(x, sorted) ==
    IF sorted = <<>> THEN <<x>>
    ELSE IF ScoreOf(sorted[1]) > ScoreOf(x)
         THEN <<sorted[1]>> \o InsertDesc_TiesFirst(x, Tail(sorted))
         ELSE <<x>> \o sorted

RECURSIVE InsertDesc(_, _)
\* place x behind every element whose score is not smaller: the order of
\* equal-score elements is the order in which they were inserted
InsertDesc(x, sorted) ==
    IF sorted = <<>> THEN <<x>>
    ELSE IF ScoreOf(sorted[1]) >= ScoreOf(x)
         THEN <<sorted[1]>> \o InsertDesc(x, Tail(sorted))
         ELSE <<x>> \o sorted

RECURSIVE SortFrom(_, _)
SortFrom(seq, acc) ==
    IF seq = <<>> THEN acc ELSE SortFrom(Tail(seq), InsertDesc(seq[1], acc))

\* list.sort(key=score, reverse=True): stable, non-increasing score
SortByScoreDesc(seq) == SortFrom(seq, <<>>)

RECURSIVE Dedup_PerSource(_, _, _)
\* a loop that takes content and source together as the key
Dedup_PerSource(chunks, seen, combined) ==
    IF chunks = <<>> THEN combined
    ELSE LET chunk == chunks[1]
             key == <<chunk["content"], chunk["source"]>>
         IN  IF key \in seen
             THEN Dedup_PerSource(Tail(chunks), seen, combined)
             ELSE Dedup_PerSource(Tail(chunks), seen \cup {key}, Append(combined, chunk))

RECURSIVE Dedup(_, _, _)
\* the loop of rerank over the concatenated source lists
Dedup(chunks, seen, combined) ==
    IF chunks = <<>> THEN combined
    ELSE LET chunk == chunks[1]
             key == chunk["content"]
         IN  IF key \in seen
             THEN Dedup(Tail(chunks), seen, combined)
             ELSE Dedup(Tail(chunks), seen \cup {key}, Append(combined, chunk))

\* a merge that takes the three source lists out of the state
rerank_ConsumeSources(s) ==
    LET all == Get(s, "memobase_results", <<>>) \o Get(s, "vector_results", <<>>)
                   \o Get(s, "graph_results", <<>>)
        combined == Dedup(all, {}, <<>>)
        rest == [k \in (DOMAIN s) \ {"memobase_results", "vector_results",
                                     "graph_results"} |-> s[k]]
    IN  Put(rest, "final_results", SortByScoreDesc(combined))

rerank(s) ==
    LET all == Get(s, "memobase_results", <<>>) \o Get(s, "vector_results", <<>>)
                   \o Get(s, "graph_results", <<>>)
        combined == Dedup(all, {}, <<>>)
    IN  Put(s, "final_results", SortByScoreDesc(combined))

\* the email test made before the task test
tool_planner_EmailFirst(s) ==
    LET query == Lower(Get(s, "query", ""))
        planned == IF Contains(query, "email")
                   THEN <<[tool_name |-> "send_email",
                           arguments |-> [body |-> Get(s, "query", None)]]>>
                   ELSE IF Contains(query, "task") \/ Contains(query, "todo")
                        THEN <<[tool_name |-> "create_task",
                                arguments |-> [title |-> Get(s, "query", None)]]>>
                   ELSE <<>>
    IN  Put(s, "planned_tools", planned)

tool_planner(s) ==
    LET query == Lower(Get(s, "query", ""))
        planned == IF Contains(query, "task") \/ Contains(query, "todo")
                   THEN <<[tool_name |-> "create_task",
                           arguments |-> [title |-> Get(s, "query", None)]]>>
                   ELSE IF Contains(query, "email")
                        THEN <<[tool_name |-> "send_email",
                                arguments |-> [body |-> Get(s, "query", None)]]>>
                   ELSE <<>>
    IN  Put(s, "planned_tools", planned)

\* " ".join(answer_parts)
JoinParts(parts) ==
    IF Len(parts) = 2 THEN parts[1] \o " " \o parts[2] ELSE parts[1]

\* the two clauses appended in the opposite order
generate_answer_ContextFirst(s) ==
    LET p1 == IF Get(s, "final_results", <<>>) # <<>>
              THEN <<"Found supporting context.">> ELSE <<>>
        p2 == IF Get(s, "planned_tools", <<>>) # <<>>
              THEN p1 \o <<"Planned tools executed.">> ELSE p1
        answer_parts == IF p2 = <<>> THEN <<"Processed request.">> ELSE p2
    IN  Put(s, "answer", JoinParts(answer_parts))

\* the second clause under `elif`
generate_answer_ToolsOnly(s) ==
    LET answer_parts == IF Get(s, "planned_tools", <<>>) # <<>>
                        THEN <<"Planned tools executed.">>
                        ELSE IF Get(s, "final_results", <<>>) # <<>>
                             THEN <<"Found supporting context.">>
                        ELSE <<"Processed request.">>
    IN  Put(s, "answer", JoinParts(answer_parts))

generate_answer(s) ==
    LET p1 == IF Get(s, "planned_tools", <<>>) # <<>>
              THEN <<"Planned tools executed.">> ELSE <<>>
        p2 == IF Get(s, "final_results", <<>>) # <<>>
              THEN p1 \o <<"Found supporting context.">> ELSE p1
        answer_parts == IF p2 = <<>> THEN <<"Processed request.">> ELSE p2
    IN  Put(s, "answer", JoinParts(answer_parts))

(***************************************************************************)
(* clients.py: the in-memory collaborators.                                *)
(***************************************************************************)
\* InMemoryMemobaseClient.search
\* a search that does not look at the owner of a record
MemobaseSearch_AnyOwner(records, user_id, query, topic, k) ==
    LET matching == SelectSeq(records, LAMBDA record :
                        /\ ~(topic # None /\ topic # "" /\ record["topic"] # topic)
                        /\ Contains(Lower(record["content"]), Lower(query)))
        hits == [i \in 1..Len(matching) |->
                    [content |-> matching[i]["content"],
                     score |-> Get(matching[i], "strength", Strength),
                     topic |-> matching[i]["topic"],
                     type |-> matching[i]["type"],
                     id |-> matching[i]["id"],
                     metadata |-> Get(matching[i], "metadata", EmptyDict)]]
        sorted == SortByScoreDesc(hits)
    IN  SubSeq(sorted, 1, Min(k, Len(sorted)))

MemobaseSearch(records, user_id, query, topic, k) ==
    LET matching == SelectSeq(records, LAMBDA record :
                        /\ record["user_id"] = user_id
                        /\ ~(topic # None /\ topic # "" /\ record["topic"] # topic)
                        /\ Contains(Lower(record["content"]), Lower(query)))
        hits == [i \in 1..Len(matching) |->
                    [content |-> matching[i]["content"],
                     score |-> Get(matching[i], "strength", Strength),
                     topic |-> matching[i]["topic"],
                     type |-> matching[i]["type"],
                     id |-> matching[i]["id"],
                     metadata |-> Get(matching[i], "metadata", EmptyDict)]]
        sorted == SortByScoreDesc(hits)
    IN  SubSeq(sorted, 1, Min(k, Len(sorted)))

\* record.setdefault(key, value)
SetDefault(record, key, value) == IF Has(record, key) THEN record ELSE Put(record, key, value)

\* a write that leaves out a record whose id is already stored
MemobaseWrite_DedupById(records, new, t) ==
    records \o SelectSeq(new, LAMBDA n :
                  ~\E i \in 1..Len(records) : records[i]["id"] = n["id"])

\* InMemoryMemobaseClient.write
MemobaseWrite(records, new, t) ==
    records \o [i \in 1..Len(new) |->
        SetDefault(SetDefault(SetDefault(new[i],
            "created_at", t), "last_seen_at", t), "strength", Strength)]

\* InMemoryRagdollClient.ingest (the collections are a defaultdict(list))
RagdollIngest(collections, documents, collection) ==
    Put(collections, collection, Get(collections, collection, <<>>) \o documents)

RECURSIVE RagdollScan(_, _, _)
RagdollScan(collections, names, query) ==
    IF names = <<>> THEN <<>>
    ELSE LET docs == SelectSeq(Get(collections, names[1], <<>>),
                         LAMBDA doc : Contains(Lower(doc["text"]), Lower(query)))
         IN  [i \in 1..Len(docs) |->
                 [text |-> docs[i]["text"], score |-> Strength,
                  metadata |-> Get(docs[i], "metadata", EmptyDict)]]
             \o RagdollScan(collections, Tail(names), query)

\* InMemoryRagdollClient.search
RagdollSearch(collections, query, names, k) ==
    LET sorted == SortByScoreDesc(RagdollScan(collections, names, query))
    IN  SubSeq(sorted, 1, Min(k, Len(sorted)))

\* InMemoryGraphClient.query_with_pagerank
GraphQuery(g, query, topic_graphs, max_docs) ==
    LET refs == SelectSeq(g.doc_refs, LAMBDA doc_ref :
                    /\ ~(topic_graphs # <<>> /\
                         ~\E i \in 1..Len(topic_graphs) : topic_graphs[i] = doc_ref["topic"])
                    /\ InDigest(Lower(query), doc_ref["doc_id"]))
        hits == [i \in 1..Len(refs) |->
                    [text |-> refs[i]["doc_id"], score |-> Strength,
                     metadata |-> [topic |-> refs[i]["topic"]]]]
    IN  SubSeq(hits, 1, Min(max_docs, Len(hits)))

\* InMemoryGraphClient.update_from_entities
GraphUpdate(g, entities, relationships, doc_refs) ==
    [entities |-> g.entities \o entities,
     relationships |-> g.relationships \o relationships,
     doc_refs |-> g.doc_refs \o doc_refs]

(***************************************************************************)
(* tooling.py                                                              *)
(***************************************************************************)
\* default_tool_registry
DefaultTools == {"create_task", "send_email", "schedule_meeting", "trigger_n8n_flow"}

\* ToolRegistry.get: the callable (named by its tool) or None
RegistryGet(registry, name) == IF name \in registry THEN name ELSE None

\* create_task_tool, send_email_tool, schedule_meeting_tool, trigger_n8n_flow
CallTool(name, arguments) ==
    CASE name = "create_task" -> [status |-> "created", title |-> arguments["title"]]
      [] name = "send_email" -> [status |-> "sent", body |-> arguments["body"]]
      [] name = "schedule_meeting" ->
            [status |-> "scheduled", topic |-> Get(arguments, "topic", "meeting")]
      [] name = "trigger_n8n_flow" ->
            [status |-> "triggered", flow |-> Get(arguments, "flow_name", "default"),
             payload |-> Get(arguments, "payload", EmptyDict)]

(***************************************************************************)
(* nodes.py: the steps built over a NodeContext.  A step takes the state   *)
(* and the environment env = [mem, rag, gdb, tools, now] of its context    *)
(* and gives the returned state, the collaborators' contents after the     *)
(* step and the collaborator calls it made.                                *)
(***************************************************************************)
Outcome(s, mem, rag, gdb, called) ==
    [state |-> s, mem |-> mem, rag |-> rag, gdb |-> gdb, calls |-> called]

\* a step that touches no collaborator
Local(s, env) == Outcome(s, env.mem, env.rag, env.gdb, <<>>)

write_memobase(s, env) ==
    LET record == [id |-> _short_hash(Get(s, "query", "") \o ToString(env.now)),
                   user_id |-> s["user_id"],
                   topic |-> OrElse(Get(s, "primary_topic", None), "general"),
                   type |-> OrElse(Get(s, "ingestion_type", None), "note"),
                   content |-> Get(s, "query", ""),
                   metadata |-> Get(s, "metadata", EmptyDict),
                   created_at |-> env.now,
                   last_seen_at |-> env.now,
                   strength |-> Strength,
                   expires_at |-> None]
        chunk == [content |-> record["content"], score |-> record["strength"],
                  source |-> "memobase", metadata |-> record["metadata"]]
    IN  Outcome(Put(s, "memobase_results", <<chunk>>),
                MemobaseWrite(env.mem, <<record>>, env.now), env.rag, env.gdb,
                <<"memobase.write">>)

write_vector_indexes(s, env) ==
    LET collection == vector_collection_prefix \o "."
                        \o OrElse(Get(s, "primary_topic", None), "general")
        doc_id == _short_hash(Get(s, "query", ""))
        doc == [doc_id |-> doc_id, text |-> Get(s, "query", ""),
                metadata |-> [topic |-> Get(s, "primary_topic", None)]]
    IN  Outcome(s, env.mem, RagdollIngest(env.rag, <<doc>>, collection), env.gdb,
                <<"ragdoll.ingest">>)

write_graph(s, env) ==
    LET doc_id == _short_hash(Get(s, "query", ""))
        entity == [name |-> "note", type |-> "doc",
                   metadata |-> [doc_id |-> doc_id,
                                 topic |-> Get(s, "primary_topic", None)]]
        doc_ref == [doc_id |-> doc_id,
                    topic |-> OrElse(Get(s, "primary_topic", None), "general")]
    IN  Outcome(s, env.mem, env.rag,
                GraphUpdate(env.gdb, <<entity>>, <<>>, <<doc_ref>>),
                <<"graph.update_from_entities">>)

retrieve_memobase(s, env) ==
    LET hits == MemobaseSearch(env.mem, s["user_id"], Get(s, "query", ""),
                               Get(s, "primary_topic", None), K)
        chunks == [i \in 1..Len(hits) |->
                      [content |-> hits[i]["content"], score |-> hits[i]["score"],
                       source |-> "memobase", metadata |-> hits[i]["metadata"]]]
    IN  Outcome(Put(s, "memobase_results", chunks), env.mem, env.rag, env.gdb,
                <<"memobase.search">>)

retrieve_vector(s, env) ==
    LET collection == vector_collection_prefix \o "."
                        \o OrElse(Get(s, "primary_topic", None), "general")
        hits == RagdollSearch(env.rag, Get(s, "query", ""), <<collection>>, K)
        chunks == [i \in 1..Len(hits) |->
                      [content |-> hits[i]["text"], score |-> hits[i]["score"],
                       source |-> "vector", metadata |-> hits[i]["metadata"]]]
    IN  Outcome(Put(s, "vector_results", chunks), env.mem, env.rag, env.gdb,
                <<"ragdoll.search">>)

retrieve_graph_pagerank(s, env) ==
    LET topic == Get(s, "primary_topic", None)
        graphs == IF topic # None /\ topic # "" THEN <<topic>> ELSE <<>>
        hits == GraphQuery(env.gdb, Get(s, "query", ""), graphs, K)
        chunks == [i \in 1..Len(hits) |->
                      [content |-> hits[i]["text"], score |-> hits[i]["score"],
                       source |-> "graph", metadata |-> hits[i]["metadata"]]]
    IN  Outcome(Put(s, "graph_results", chunks), env.mem, env.rag, env.gdb,
                <<"graph.query_with_pagerank">>)

\* results[name] = value on a dict kept in insertion order, as a sequence of
\* [name, result] entries
SetResult(results, name, value) ==
    IF \E i \in 1..Len(results) : results[i].name = name
    THEN [i \in 1..Len(results) |->
             IF results[i].name = name THEN [name |-> name, result |-> value]
             ELSE results[i]]
    ELSE Append(results, [name |-> name, result |-> value])

NotRegistered == [error |-> "tool not registered"]

RECURSIVE RunCalls_AbortOnUnknown(_, _, _, _)
\* a loop that is left at the first call whose tool is not registered
RunCalls_AbortOnUnknown(planned, registry, results, called) ==
    IF planned = <<>> THEN [results |-> results, called |-> called]
    ELSE LET call == planned[1]
             tool == RegistryGet(registry, call["tool_name"])
         IN  IF tool = None
             THEN [results |-> SetResult(results, call["tool_name"], NotRegistered),
                   called |-> called]
             ELSE RunCalls_AbortOnUnknown(Tail(planned), registry,
                           SetResult(results, call["tool_name"],
                                     CallTool(tool, Get(call, "arguments", EmptyDict))),
                           Append(called, "tool." \o tool))

RECURSIVE RunCalls(_, _, _, _)
\* the loop of run_tools: the results so far and the tools called so far
RunCalls(planned, registry, results, called) ==
    IF planned = <<>> THEN [results |-> results, called |-> called]
    ELSE LET call == planned[1]
             tool == RegistryGet(registry, call["tool_name"])
         IN  IF tool = None
             THEN RunCalls(Tail(planned), registry,
                           SetResult(results, call["tool_name"], NotRegistered), called)
             ELSE RunCalls(Tail(planned), registry,
                           SetResult(results, call["tool_name"],
                                     CallTool(tool, Get(call, "arguments", EmptyDict))),
                           Append(called, "tool." \o tool))

run_tools(s, env) ==
    LET done == RunCalls(Get(s, "planned_tools", <<>>), env.tools, <<>>, <<>>)
    IN  Outcome(Put(s, "tool_results", done.results), env.mem, env.rag, env.gdb,
                done.called)

\* repr of one tool result
ReprResult(v) ==
    IF Has(v, "error") THEN "{'error': '" \o v["error"] \o "'}"
    ELSE IF v["status"] = "created"
         THEN "{'status': 'created', 'title': '" \o v["title"] \o "'}"
    ELSE IF v["status"] = "sent"
         THEN "{'status': 'sent', 'body': '" \o v["body"] \o "'}"
    ELSE IF v["status"] = "scheduled"
         THEN "{'status': 'scheduled', 'topic': '" \o v["topic"] \o "'}"
    ELSE "{'status': 'triggered', 'flow': '" \o v["flow"] \o "', 'payload': {}}"

RECURSIVE ReprEntries(_)
ReprEntries(results) ==
    IF results = <<>> THEN ""
    ELSE "'" \o results[1].name \o "': " \o ReprResult(results[1].result)
         \o (IF Len(results) > 1 THEN ", " ELSE "") \o ReprEntries(Tail(results))

\* str(state["tool_results"])
Serialize(results) == "{" \o ReprEntries(results) \o "}"

\* an ingestion that writes a record whether or not there are tool results
ingest_tool_results_Always(s, env) ==
    LET serialized == Serialize(Get(s, "tool_results", <<>>))
        record == [id |-> _short_hash(serialized),
                   user_id |-> s["user_id"],
                   topic |-> OrElse(Get(s, "primary_topic", None), "general"),
                   type |-> "tool_result",
                   content |-> serialized,
                   metadata |-> [source |-> "tool_ingest"],
                   created_at |-> env.now,
                   last_seen_at |-> env.now,
                   strength |-> Strength,
                   expires_at |-> None]
    IN  Outcome(s, MemobaseWrite(env.mem, <<record>>, env.now), env.rag, env.gdb,
                <<"memobase.write">>)

ingest_tool_results(s, env) ==
    IF Get(s, "tool_results", <<>>) = <<>> THEN Local(s, env)
    ELSE LET serialized == Serialize(s["tool_results"])
             record == [id |-> _short_hash(serialized),
                        user_id |-> s["user_id"],
                        topic |-> OrElse(Get(s, "primary_topic", None), "general"),
                        type |-> "tool_result",
                        content |-> serialized,
                        metadata |-> [source |-> "tool_ingest"],
                        created_at |-> env.now,
                        last_seen_at |-> env.now,
                        strength |-> Strength,
                        expires_at |-> None]
         IN  Outcome(s, MemobaseWrite(env.mem, <<record>>, env.now), env.rag, env.gdb,
                     <<"memobase.write">>)

\* the steps that read time.time()
ReadsClock == {"transform_for_storage", "write_memobase", "ingest_tool_results"}

\* every awaited call taken as a point where the event loop changes hands
Suspends_EveryCall(call) == call # ""

\* the awaited calls that give the event loop to another run: a tool awaits
\* asyncio.sleep(0); no method of an in-memory collaborator awaits anything
Suspends(call) == SubSeq(call, 1, 5) = "tool."

\* the steps defined with `async def`, awaited by ainvoke
Coroutines == {"write_memobase", "write_vector_indexes", "write_graph",
               "retrieve_memobase", "retrieve_vector", "retrieve_graph_pagerank",
               "run_tools", "ingest_tool_results"}

\* the callable registered under a function name, applied to a state
Apply(fn, s, env) ==
    CASE fn = "classify_interaction" -> Local(classify_interaction(s), env)
      [] fn = "normalise_input" -> Local(normalise_input(s), env)
      [] fn = "detect_ingestion_type" -> Local(detect_ingestion_type(s), env)
      [] fn = "transform_for_storage" -> Local(transform_for_storage(s, env.now), env)
      [] fn = "write_memobase" -> write_memobase(s, env)
      [] fn = "write_vector_indexes" -> write_vector_indexes(s, env)
      [] fn = "write_graph" -> write_graph(s, env)
      [] fn = "classify_topic" -> Local(classify_topic(s), env)
      [] fn = "classify_intent" -> Local(classify_intent(s), env)
      [] fn = "route_retrieval" -> Local(route_retrieval(s), env)
      [] fn = "retrieve_memobase" -> retrieve_memobase(s, env)
      [] fn = "retrieve_vector" -> retrieve_vector(s, env)
      [] fn = "retrieve_graph_pagerank" -> retrieve_graph_pagerank(s, env)
      [] fn = "rerank" -> Local(rerank(s), env)
      [] fn = "tool_planner" -> Local(tool_planner(s), env)
      [] fn = "run_tools" -> run_tools(s, env)
      [] fn = "ingest_tool_results" -> ingest_tool_results(s, env)
      [] fn = "generate_answer" -> Local(generate_answer(s), env)

(***************************************************************************)
(* graph_builder.py                                                        *)
(***************************************************************************)
END == "__END__"

\* a guard that invokes the wrapped step and returns the state it was given
_guarded_DropResult(node, flag_key, s, env) ==
    IF Get(s, flag_key, FALSE) = FALSE THEN Local(s, env)
    ELSE LET out == Apply(node, s, env)
         IN  Outcome(s, out.mem, out.rag, out.gdb, out.calls)

\* a guard that passes the state through only when the flag is absent
_guarded_AbsentOnly(node, flag_key, s, env) ==
    IF ~Has(s, flag_key) THEN Local(s, env)
    ELSE Apply(node, s, env)

\* _guarded(node, flag_key) applied to a state
_guarded(node, flag_key, s, env) ==
    IF Get(s, flag_key, FALSE) = FALSE THEN Local(s, env)
    ELSE Apply(node, s, env)

\* a registered callable: a step function, wrapped by _guarded when it has
\* a flag key
Plain(fn) == [fn |-> fn, flag_key |-> None]
Guarded(fn, flag_key) == [fn |-> fn, flag_key |-> flag_key]

\* node_func(state)
CallNode(node_func, s, env) ==
    IF node_func.flag_key = None THEN Apply(node_func.fn, s, env)
    ELSE _guarded(node_func.fn, node_func.flag_key, s, env)

\* the router of both conditional edges:
\* lambda state: state.get("interaction_kind", InteractionKind.ACT_AND_STORE).value
\* a router that reads the ingestion type instead of the interaction kind
KindRouter_ByIngestion == [key |-> "ingestion_type", default |-> ACT_AND_STORE]

KindRouter == [key |-> "interaction_kind", default |-> ACT_AND_STORE]

\* condition(state)
Route(condition, s) == Get(s, condition.key, condition.default)

\* a mapping that sends the act-now label where the act-and-store label goes
KindMapping_ActNowAsActAndStore(store_only, transform_and_store, act_and_store, act_now) ==
    [condition |-> KindRouter,
     mapping |-> [store_only |-> store_only,
                  transform_and_store |-> transform_and_store,
                  act_and_store |-> act_and_store,
                  act_now |-> act_and_store]]

KindMapping(store_only, transform_and_store, act_and_store, act_now) ==
    [condition |-> KindRouter,
     mapping |-> [store_only |-> store_only,
                  transform_and_store |-> transform_and_store,
                  act_and_store |-> act_and_store,
                  act_now |-> act_now]]

\* the eighteen add_node calls
AssistantNodes ==
    [n \in {"classify_interaction", "normalise_input", "detect_ingestion_type",
            "transform_for_storage", "write_memobase", "write_vector_indexes",
            "write_graph", "classify_topic", "classify_intent", "route_retrieval",
            "retrieve_memobase", "retrieve_vector", "retrieve_graph_pagerank",
            "rerank", "tool_planner", "run_tools", "ingest_tool_results",
            "generate_answer"} |->
        CASE n = "retrieve_memobase" -> Guarded(n, "need_memobase")
          [] n = "retrieve_vector" -> Guarded(n, "need_vector")
          [] n = "retrieve_graph_pagerank" -> Guarded(n, "need_graph")
          [] OTHER -> Plain(n)]

\* the edges with ingest_tool_results wired back to tool_planner
AssistantEdges_Loop ==
    [normalise_input |-> <<"detect_ingestion_type">>,
     detect_ingestion_type |-> <<"transform_for_storage">>,
     transform_for_storage |-> <<"write_memobase">>,
     write_memobase |-> <<"write_vector_indexes">>,
     write_vector_indexes |-> <<"write_graph">>,
     classify_topic |-> <<"classify_intent">>,
     classify_intent |-> <<"route_retrieval">>,
     route_retrieval |-> <<"retrieve_memobase">>,
     retrieve_memobase |-> <<"retrieve_vector">>,
     retrieve_vector |-> <<"retrieve_graph_pagerank">>,
     retrieve_graph_pagerank |-> <<"rerank">>,
     rerank |-> <<"tool_planner">>,
     tool_planner |-> <<"run_tools">>,
     run_tools |-> <<"ingest_tool_results">>,
     ingest_tool_results |-> <<"tool_planner">>,
     generate_answer |-> <<END>>]

\* the edges with rerank wired straight after memory retrieval, ahead of the
\* vector and graph retrieval steps
AssistantEdges_RerankEarly ==
    [normalise_input |-> <<"detect_ingestion_type">>,
     detect_ingestion_type |-> <<"transform_for_storage">>,
     transform_for_storage |-> <<"write_memobase">>,
     write_memobase |-> <<"write_vector_indexes">>,
     write_vector_indexes |-> <<"write_graph">>,
     classify_topic |-> <<"classify_intent">>,
     classify_intent |-> <<"route_retrieval">>,
     route_retrieval |-> <<"retrieve_memobase">>,
     retrieve_memobase |-> <<"rerank">>,
     rerank |-> <<"retrieve_vector">>,
     retrieve_vector |-> <<"retrieve_graph_pagerank">>,
     retrieve_graph_pagerank |-> <<"tool_planner">>,
     tool_planner |-> <<"run_tools">>,
     run_tools |-> <<"ingest_tool_results">>,
     ingest_tool_results |-> <<"generate_answer">>,
     generate_answer |-> <<END>>]

\* the sixteen add_edge calls
AssistantEdges ==
    [normalise_input |-> <<"detect_ingestion_type">>,
     detect_ingestion_type |-> <<"transform_for_storage">>,
     transform_for_storage |-> <<"write_memobase">>,
     write_memobase |-> <<"write_vector_indexes">>,
     write_vector_indexes |-> <<"write_graph">>,
     classify_topic |-> <<"classify_intent">>,
     classify_intent |-> <<"route_retrieval">>,
     route_retrieval |-> <<"retrieve_memobase">>,
     retrieve_memobase |-> <<"retrieve_vector">>,
     retrieve_vector |-> <<"retrieve_graph_pagerank">>,
     retrieve_graph_pagerank |-> <<"rerank">>,
     rerank |-> <<"tool_planner">>,
     tool_planner |-> <<"run_tools">>,
     run_tools |-> <<"ingest_tool_results">>,
     ingest_tool_results |-> <<"generate_answer">>,
     generate_answer |-> <<END>>]

\* StateGraph after the calls of its builder methods; finish_node stays None
\* unless set_finish_point is called
StateGraph(nodes, entrypoint, finish_node, conditional_edges, edges) ==
    [nodes |-> nodes, entrypoint |-> entrypoint, finish_node |-> finish_node,
     conditional_edges |-> conditional_edges, edges |-> edges]

\* a store-only run sent on into retrieval after the storage writes
build_assistant_graph_StoreOnlyRetrieves ==
    StateGraph(AssistantNodes, "classify_interaction", None,
        [classify_interaction |->
            KindMapping("normalise_input", "normalise_input", "normalise_input",
                        "classify_topic"),
         write_graph |->
            KindMapping("classify_topic", "generate_answer", "classify_topic",
                        "classify_topic")],
        AssistantEdges)

build_assistant_graph ==
    StateGraph(AssistantNodes, "classify_interaction", None,
        [classify_interaction |->
            KindMapping("normalise_input", "normalise_input", "normalise_input",
                        "classify_topic"),
         write_graph |->
            KindMapping("generate_answer", "generate_answer", "classify_topic",
                        "classify_topic")],
        AssistantEdges)

\* `while current:` is left when the cursor is None or empty
Falsy(name) == name = None \/ name = ""

\* asyncio.iscoroutinefunction(node_func)
IsCoroutine(node_func) == node_func.flag_key # None \/ node_func.fn \in Coroutines

\* a lookup that takes a label the mapping does not contain as the name of
\* the next step
Advance_LabelAsStep(g, cur, s) ==
    IF cur \in DOMAIN g.conditional_edges
    THEN LET edge == g.conditional_edges[cur]
             label == Route(edge.condition, s)
         IN  [current |-> Get(edge.mapping, label, label), break |-> FALSE]
    ELSE LET next_nodes == Get(g.edges, cur, <<>>)
             nxt == IF next_nodes # <<>> THEN next_nodes[1] ELSE None
         IN  [current |-> nxt, break |-> (nxt = g.finish_node)]

\* lines 82-90 of ainvoke: the cursor after the step `cur` returned state s,
\* and whether the loop was left through `break`
Advance(g, cur, s) ==
    IF cur \in DOMAIN g.conditional_edges
    THEN LET edge == g.conditional_edges[cur]
             label == Route(edge.condition, s)
         IN  [current |-> Get(edge.mapping, label, None), break |-> FALSE]
    ELSE LET next_nodes == Get(g.edges, cur, <<>>)
             nxt == IF next_nodes # <<>> THEN next_nodes[1] ELSE None
         IN  [current |-> nxt, break |-> (nxt = g.finish_node)]

NoError == [type |-> None, key |-> None]
KeyError(key) == [type |-> "KeyError", key |-> key]

\* the exception of a collaborator or tool call that fails, named by the call
\* (the HTTP clients raise RuntimeError("<operation> failed: ..."))
CallError(call) == [type |-> "RuntimeError", key |-> call]

\* every run served from the collaborators of the first context
Env_SharedContext(r) ==
    [mem |-> memobase[1], rag |-> ragdoll[1], gdb |-> graphdb[1],
     tools |-> tools[1], now |-> now]

\* the environment a step of run r sees
Env(r) == [mem |-> memobase[ctxOf[r]], rag |-> ragdoll[ctxOf[r]],
           gdb |-> graphdb[ctxOf[r]], tools |-> tools[ctxOf[r]], now |-> now]

(***************************************************************************)
(* The requests served.                                                    *)
(***************************************************************************)
Input(user_id, query) == [user_id |-> user_id, query |-> query, history |-> <<>>]

Inputs ==
    { Input("tester", "remember this task to email the team"),
      Input("tester", "store only my phone number is 555"),
      Input("ann", " Store and summarize the call\n"),
      Input("ann", "How to email family NOW"),
      Input("ann", "") }

(***************************************************************************)
(* Actions.                                                                *)
(***************************************************************************)
\* the runs inside ainvoke
InFlight == {r \in Runs : status[r] = "running"}

\* every run has a pipeline built over a context of its own and is driven to
\* its end by asyncio.run, as in test_graph_runs_end_to_end; otherwise the
\* runs share the one context and compiled graph of create_app and are in
\* flight together
PerRunContext == ctxOf = [r \in Runs |-> r]

\* test_graph_runs_end_to_end / assistant_endpoint: ainvoke(initial_state),
\* up to the first test of `while current`
StartRun(r, inp) ==
    /\ status[r] = "idle"
    /\ running = 0
    /\ IF r = 1 THEN TRUE ELSE status[r - 1] # "idle"
    /\ PerRunContext => InFlight = {}
    /\ initial' = [initial EXCEPT ![r] = inp]
    /\ state' = [state EXCEPT ![r] = inp]
    /\ current' = [current EXCEPT ![r] = graph.entrypoint]
    /\ status' = [status EXCEPT ![r] =
                    IF Falsy(graph.entrypoint) THEN "returned" ELSE "running"]
    /\ running' = IF Falsy(graph.entrypoint) THEN 0 ELSE r
    /\ UNCHANGED <<graph, ctxOf, tools, memobase, ragdoll, graphdb, now, trace,
                   calls, error>>

\* one state container handed to every run
Threaded_OneContainer(states, r, s) == [q \in DOMAIN states |-> s]

\* `state = ... node_func(state)`: `state` is a local variable of the ainvoke
\* call of run r, bound to the dict that run was started with
Threaded(states, r, s) == [states EXCEPT ![r] = s]

\* one iteration of the loop of ainvoke whose lookup succeeds
ExecStep(r) ==
    /\ status[r] = "running"
    /\ running \in {0, r}
    /\ current[r] \in DOMAIN graph.nodes
    /\ LET cur == current[r]
           node_func == graph.nodes[cur]
           out == CallNode(node_func, state[r], Env(r))
           adv == Advance(graph, cur, out.state)
           over == adv.break \/ Falsy(adv.current)
           c == ctxOf[r]
       IN  /\ state' = Threaded(state, r, out.state)
           /\ memobase' = [memobase EXCEPT ![c] = out.mem]
           /\ ragdoll' = [ragdoll EXCEPT ![c] = out.rag]
           /\ graphdb' = [graphdb EXCEPT ![c] = out.gdb]
           /\ calls' = [calls EXCEPT ![r] = @ \o out.calls]
           /\ trace' = [trace EXCEPT ![r] = Append(@, cur)]
           /\ current' = [current EXCEPT ![r] = adv.current]
           /\ status' = [status EXCEPT ![r] = IF over THEN "returned" ELSE "running"]
           /\ running' = IF over \/ (IsCoroutine(node_func) /\
                                      \E i \in 1..Len(out.calls) : Suspends(out.calls[i]))
                         THEN 0 ELSE r
           /\ IF node_func.fn \in ReadsClock /\ now < MaxClock
              THEN now' \in {now, now + 1}
              ELSE now' = now
    /\ UNCHANGED <<graph, ctxOf, tools, initial, error>>

\* self.graph.nodes[current] for a cursor that names no registered step
LookupFails(r) ==
    /\ status[r] = "running"
    /\ running \in {0, r}
    /\ current[r] \notin DOMAIN graph.nodes
    /\ status' = [status EXCEPT ![r] = "raised"]
    /\ error' = [error EXCEPT ![r] = KeyError(current[r])]
    /\ running' = 0
    /\ UNCHANGED <<graph, ctxOf, tools, memobase, ragdoll, graphdb, now, initial,
                   state, current, trace, calls>>

\* a failure that is recorded while the run stays at the failing step
StepRaises_Retried(r) ==
    /\ status[r] = "running"
    /\ running \in {0, r}
    /\ current[r] \in DOMAIN graph.nodes
    /\ LET out == CallNode(graph.nodes[current[r]], state[r], Env(r))
       IN  \E i \in 1..Len(out.calls) :
               /\ calls' = [calls EXCEPT ![r] = @ \o SubSeq(out.calls, 1, i)]
               /\ error' = [error EXCEPT ![r] = CallError(out.calls[i])]
    /\ running' = 0
    /\ UNCHANGED <<graph, ctxOf, tools, memobase, ragdoll, graphdb, now, initial,
                   state, current, trace, status>>

\* one iteration of the loop of ainvoke in which an awaited collaborator or
\* tool call of the step raises: the exception leaves `await node_func(state)`
\* and ainvoke.  Every step assigns to the state only after its awaited
\* calls, so the state is as the step received it; the call that raised has
\* stored nothing.
\* a failure that also removes the last record of the memory store
StepRaises_RollsBack(r) ==
    /\ status[r] = "running"
    /\ running \in {0, r}
    /\ current[r] \in DOMAIN graph.nodes
    /\ LET out == CallNode(graph.nodes[current[r]], state[r], Env(r))
       IN  \E i \in 1..Len(out.calls) :
               /\ calls' = [calls EXCEPT ![r] = @ \o SubSeq(out.calls, 1, i)]
               /\ error' = [error EXCEPT ![r] = CallError(out.calls[i])]
    /\ status' = [status EXCEPT ![r] = "raised"]
    /\ running' = 0
    /\ memobase' = [memobase EXCEPT ![ctxOf[r]] =
                       IF @ = <<>> THEN @ ELSE SubSeq(@, 1, Len(@) - 1)]
    /\ UNCHANGED <<graph, ctxOf, tools, ragdoll, graphdb, now, initial,
                   state, current, trace>>

StepRaises(r) ==
    /\ status[r] = "running"
    /\ running \in {0, r}
    /\ current[r] \in DOMAIN graph.nodes
    /\ LET out == CallNode(graph.nodes[current[r]], state[r], Env(r))
       IN  \E i \in 1..Len(out.calls) :
               /\ calls' = [calls EXCEPT ![r] = @ \o SubSeq(out.calls, 1, i)]
               /\ error' = [error EXCEPT ![r] = CallError(out.calls[i])]
    /\ status' = [status EXCEPT ![r] = "raised"]
    /\ running' = 0
    /\ UNCHANGED <<graph, ctxOf, tools, memobase, ragdoll, graphdb, now, initial,
                   state, current, trace>>

\* one context for every run (create_app) or one context per run (the test)
Init ==
    /\ graph = build_assistant_graph
    /\ ctxOf \in {[r \in Runs |-> 1], [r \in Runs |-> r]}
    /\ tools = [c \in Ctxs |-> DefaultTools]
    /\ memobase = [c \in Ctxs |-> <<>>]
    /\ ragdoll = [c \in Ctxs |-> EmptyDict]
    /\ graphdb = [c \in Ctxs |-> [entities |-> <<>>, relationships |-> <<>>,
                                  doc_refs |-> <<>>]]
    /\ now = 0
    /\ status = [r \in Runs |-> "idle"]
    /\ initial = [r \in Runs |-> EmptyDict]
    /\ state = [r \in Runs |-> EmptyDict]
    /\ current = [r \in Runs |-> None]
    /\ trace = [r \in Runs |-> <<>>]
    /\ calls = [r \in Runs |-> <<>>]
    /\ error = [r \in Runs |-> NoError]
    /\ running = 0

Next ==
    \E r \in Runs :
        \/ \E inp \in Inputs : StartRun(r, inp)
        \/ ExecStep(r)
        \/ LookupFails(r)

Spec == Init /\ [][Next]_vars

(***************************************************************************)
(* The pipeline over collaborators and tools whose calls may fail.         *)
(***************************************************************************)
\* requests that between them make every collaborator call of the pipeline
\* and take each of its three paths
FaultyInputs ==
    { Input("tester", "remember this task to email the team"),
      Input("tester", "store only my phone number is 555"),
      Input("ann", "How to email family NOW") }

NextFaulty ==
    \E r \in Runs :
        \/ \E inp \in FaultyInputs : StartRun(r, inp)
        \/ ExecStep(r)
        \/ LookupFails(r)
        \/ StepRaises(r)

\* the runs of one application: one context and compiled graph (create_app)
InitFaulty == Init /\ ~PerRunContext

SpecFaulty == InitFaulty /\ [][NextFaulty]_vars

(***************************************************************************)
(* A single registered step run by the engine on a drawn state: the        *)
(* guarded retrieval steps over every combination of absent, false and     *)
(* true flags, and rerank over every three result lists of bounded total   *)
(* length.                                                                 *)
(***************************************************************************)
EmptyGraphStore == [entities |-> <<>>, relationships |-> <<>>, doc_refs |-> <<>>]

\* a graph holding the one step node_func, with no edge
OneStep(node_func) ==
    StateGraph((node_func.fn :> node_func), node_func.fn, None, EmptyDict, EmptyDict)

\* the collaborators after the three storage writes of a request
StoredBy(inp) ==
    LET env0 == [mem |-> <<>>, rag |-> EmptyDict, gdb |-> EmptyGraphStore,
                 tools |-> DefaultTools, now |-> 0]
    IN  [mem |-> write_memobase(inp, env0).mem,
         rag |-> write_vector_indexes(inp, env0).rag,
         gdb |-> write_graph(inp, env0).gdb]

NoStore == [mem |-> <<>>, rag |-> EmptyDict, gdb |-> EmptyGraphStore]

FlagKeys == {"need_memobase", "need_vector", "need_graph"}

\* the states handed to a guarded step: each flag absent, False or True
GuardStates ==
    { [k \in DOMAIN inp \cup present |->
          IF k \in present THEN k \in on ELSE inp[k]] :
      <<inp, present, on>> \in
          { t \in {Input("tester", ""), Input("tester", "zz")}
                    \X (SUBSET FlagKeys) \X (SUBSET FlagKeys) : t[3] \subseteq t[2] } }

Contents == {"a", "b", "c"}
Scores == 1..MaxScore

Chunk(content, score, source) ==
    [content |-> content, score |-> score, source |-> source, metadata |-> EmptyDict]

Tagged(pairs, source) ==
    [i \in 1..Len(pairs) |-> Chunk(pairs[i][1], pairs[i][2], source)]

\* a result list that was never produced is absent from the state
WithList(s, key, chunks) == IF chunks = <<>> THEN s ELSE Put(s, key, chunks)

\* the states handed to rerank: a sequence of at most MaxLen results cut into
\* the memory, vector and graph lists
RerankStates ==
    { WithList(WithList(WithList(Input("tester", "q"),
          "memobase_results", Tagged(SubSeq(t[1], 1, t[2]), "memobase")),
          "vector_results", Tagged(SubSeq(t[1], t[2] + 1, t[3]), "vector")),
          "graph_results", Tagged(SubSeq(t[1], t[3] + 1, Len(t[1])), "graph")) :
      t \in { u \in (UNION {[1..n -> Contents \X Scores] : n \in 0..MaxLen})
                      \X (0..MaxLen) \X (0..MaxLen) :
              u[2] <= u[3] /\ u[3] <= Len(u[1]) } }

\* the states handed to generate_answer: planned_tools and final_results
\* each absent, empty or non-empty
AnswerStates ==
    { WithList(WithList(IF t[1] THEN Put(Input("tester", "q"), "planned_tools", <<>>)
                        ELSE Input("tester", "q"),
          "planned_tools", t[2]),
          "final_results", t[3]) :
      t \in BOOLEAN
            \X {<<>>, <<[tool_name |-> "create_task", arguments |-> [title |-> "q"]]>>}
            \X {<<>>, <<Chunk("a", 1, "memobase")>>,
                <<Chunk("a", 1, "vector"), Chunk("b", 1, "graph")>>} }
    \cup
    { Put(WithList(Input("tester", "q"), "planned_tools", p), "final_results", <<>>) :
      p \in {<<>>, <<[tool_name |-> "send_email", arguments |-> [body |-> "q"]]>>} }

\* the part of the assistant graph from run_tools on
ToolTail ==
    LET names == {"run_tools", "ingest_tool_results", "generate_answer"}
    IN  StateGraph([n \in names |-> AssistantNodes[n]], "run_tools", None, EmptyDict,
                   [n \in names |-> AssistantEdges[n]])

PlannedCalls ==
    { [tool_name |-> "create_task", arguments |-> [title |-> "q"]],
      [tool_name |-> "send_email", arguments |-> [body |-> "q"]],
      [tool_name |-> "lookup_weather", arguments |-> [city |-> "q"]] }

\* the states handed to run_tools: one or two planned calls
ToolStates ==
    { Put(Input("tester", "q"), "planned_tools", p) :
      p \in { <<c>> : c \in PlannedCalls } \cup
            { <<c, d>> : <<c, d>> \in PlannedCalls \X PlannedCalls } }

\* the registries a context is built with: the default one, and one without
\* send_email
Registries == {DefaultTools, DefaultTools \ {"send_email"}}

\* a graph on the engine whose conditional edge maps the store-only label to
\* a step, the act-now label to no successor, and no other label
PartialRouting ==
    LET names == {"classify_interaction", "normalise_input"}
    IN  StateGraph([n \in names |-> AssistantNodes[n]], "classify_interaction", None,
                   [classify_interaction |->
                       [condition |-> KindRouter,
                        mapping |-> [store_only |-> "normalise_input",
                                     act_now |-> None]]],
                   EmptyDict)

\* a graph on the engine with END set as the finish marker: the conditional
\* edge maps the store-only label to END and the act-and-store label to
\* normalise_input, which has an unconditional edge to END
FinishRouting ==
    LET names == {"classify_interaction", "normalise_input"}
    IN  StateGraph([n \in names |-> AssistantNodes[n]], "classify_interaction", END,
                   [classify_interaction |->
                       [condition |-> KindRouter,
                        mapping |-> [store_only |-> END,
                                     act_and_store |-> "normalise_input"]]],
                   [normalise_input |-> <<END>>])

\* a drawn case: the graph compiled, the state submitted, the contents of
\* the collaborators and the tool registry of the context
\* requests run through the assembled pipeline from an empty store: a fact
\* lookup that is acted on and stored, an act-now request that plans no tool,
\* and a memory request that plans a tool
PipelineInputs ==
    { Input("tester", "what is the plan"),
      Input("ann", "remind me"),
      Input("tester", "remember this task to email the team") }

\* states on which route_retrieval is run alone: every intent or none, with
\* the three flags absent or left true by an earlier routing
RouteStates ==
    { [k \in DOMAIN inp \cup intent \cup flags |->
          IF k \in flags THEN TRUE
          ELSE IF k = "retrieval_intent" THEN i ELSE inp[k]] :
      <<inp, intent, i, flags>> \in
          {Input("tester", "zz"), Input("ann", "what now")}
          \X {{}, {"retrieval_intent"}}
          \X {MEMORY_PERSONAL, FACT_LOOKUP, MULTI_HOP, MIXED}
          \X {{}, FlagKeys} }

\* states on which ingest_tool_results is run alone with nothing to ingest:
\* tool_results absent, and tool_results empty
IngestStates ==
    { Input("tester", "q"), Put(Input("tester", "q"), "tool_results", <<>>) }

\* the users that write to and search the memory store
Owners == {"tester", "ann"}

\* a record as a client hands it to write: its content names its owner
OwnedRecord(owner, topic, strength) ==
    [id |-> _short_hash("note of " \o owner), user_id |-> owner, topic |-> topic,
     type |-> "note", content |-> "Note of " \o owner,
     metadata |-> [owner |-> owner], strength |-> strength, expires_at |-> None]

OwnedRecords ==
    { OwnedRecord(owner, topic, strength) :
        <<owner, topic, strength>> \in Owners \X {"general", "work"} \X {1, MaxScore} }

\* seven writes: six records of tester and one of ann, more than a search
\* returns
SevenWrites ==
    <<OwnedRecord("tester", "general", 1), OwnedRecord("tester", "work", MaxScore),
      OwnedRecord("ann", "general", MaxScore), OwnedRecord("tester", "general", MaxScore),
      OwnedRecord("tester", "general", 1), OwnedRecord("tester", "work", 1),
      OwnedRecord("tester", "general", MaxScore)>>

\* memory stores after a sequence of writes by any of the users
MemoryStores ==
    { [mem |-> MemobaseWrite(<<>>, writes, 0), rag |-> EmptyDict,
       gdb |-> EmptyGraphStore] :
      writes \in UNION { [1..n -> OwnedRecords] : n \in 0..MaxRecords }
                 \cup {SevenWrites} }

\* the states handed to retrieve_memobase: either user, a query that matches
\* every record or only those of ann, with or without a topic
SearchStates ==
    { [k \in DOMAIN inp \cup {"need_memobase"} \cup topic |->
          IF k = "need_memobase" THEN TRUE
          ELSE IF k = "primary_topic" THEN "work" ELSE inp[k]] :
      <<inp, topic>> \in
          { Input(owner, query) : <<owner, query>> \in Owners \X {"", "OF ANN"} }
          \X {{}, {"primary_topic"}} }

Case(g, s, store, registry) ==
    [graph |-> g, state |-> s, store |-> store, tools |-> registry]

StepCases ==
    { Case(OneStep(AssistantNodes[n]), s, st, DefaultTools) :
        <<n, s, st>> \in {"retrieve_memobase", "retrieve_vector",
                          "retrieve_graph_pagerank"}
                         \X GuardStates \X {NoStore, StoredBy(Input("tester", ""))} }
    \cup
    { Case(OneStep(AssistantNodes["rerank"]), s, NoStore, DefaultTools) :
        s \in RerankStates }
    \cup
    { Case(OneStep(AssistantNodes["generate_answer"]), s, NoStore, DefaultTools) :
        s \in AnswerStates }
    \cup
    { Case(ToolTail, s, NoStore, registry) :
        <<s, registry>> \in ToolStates \X Registries }
    \cup
    { Case(PartialRouting, s, NoStore, DefaultTools) : s \in Inputs }
    \cup
    { Case(FinishRouting, s, NoStore, DefaultTools) : s \in Inputs }
    \cup
    { Case(build_assistant_graph, s, NoStore, DefaultTools) : s \in PipelineInputs }
    \cup
    { Case(OneStep(AssistantNodes["route_retrieval"]), s, NoStore, DefaultTools) :
        s \in RouteStates }
    \cup
    { Case(OneStep(AssistantNodes["ingest_tool_results"]), s, st, DefaultTools) :
        <<s, st>> \in IngestStates \X {NoStore, StoredBy(Input("tester", ""))} }

\* retrieve_memobase alone, for either user on every drawn memory store
SearchCases ==
    { Case(OneStep(AssistantNodes["retrieve_memobase"]), s, st, DefaultTools) :
        <<s, st>> \in SearchStates \X MemoryStores }

InitCase(case) ==
    /\ graph = case.graph
    /\ ctxOf = [r \in Runs |-> 1]
    /\ tools = [c \in Ctxs |-> case.tools]
    /\ memobase = [c \in Ctxs |-> case.store.mem]
    /\ ragdoll = [c \in Ctxs |-> case.store.rag]
    /\ graphdb = [c \in Ctxs |-> case.store.gdb]
    /\ now = 0
    /\ status = [r \in Runs |-> IF r = 1 THEN "running" ELSE "idle"]
    /\ initial = [r \in Runs |-> IF r = 1 THEN case.state ELSE EmptyDict]
    /\ state = [r \in Runs |-> IF r = 1 THEN case.state ELSE EmptyDict]
    /\ current = [r \in Runs |-> IF r = 1 THEN case.graph.entrypoint ELSE None]
    /\ trace = [r \in Runs |-> <<>>]
    /\ calls = [r \in Runs |-> <<>>]
    /\ error = [r \in Runs |-> NoError]
    /\ running = 1

InitStep ==
    \/ \E case \in StepCases : InitCase(case)
    \/ \E case \in SearchCases : InitCase(case)

NextStep == \E r \in Runs : ExecStep(r) \/ LookupFails(r)

SpecStep == InitStep /\ [][NextStep]_vars

(***************************************************************************)
(* A single registered step on a drawn state, over collaborators and tools *)
(* whose calls may fail.                                                   *)
(***************************************************************************)
NextStepFaulty == \E r \in Runs : ExecStep(r) \/ LookupFails(r) \/ StepRaises(r)

SpecStepFaulty == InitStep /\ [][NextStepFaulty]_vars

(***************************************************************************)
(* Properties.                                                             *)
(***************************************************************************)
ScenarioA == Input("tester", "remember this task to email the team")
ScenarioB == Input("tester", "store only my phone number is 555")

Started(r) == status[r] # "idle"
Ended(r) == status[r] \in {"returned", "raised"}
Executed(r, n) == \E i \in 1..Len(trace[r]) : trace[r][i] = n
IsPrefix(p, q) == Len(p) <= Len(q) /\ SubSeq(q, 1, Len(p)) = p

\* the interaction kind a request classifies as
KindOf(inp) == classify_interaction(inp)["interaction_kind"]

StorePath ==
    <<"classify_interaction", "normalise_input", "detect_ingestion_type",
      "transform_for_storage", "write_memobase", "write_vector_indexes",
      "write_graph", "generate_answer">>

\* C1: a run on a request that classifies as act-and-store or act-now does
\* not raise, and the state it returns has a non-empty answer, a non-empty
\* primary_topic and a tool_results field.
C1_RunCompletes ==
    \A r \in Runs :
        (Started(r) /\ KindOf(initial[r]) \in {ACT_AND_STORE, ACT_NOW}) =>
            /\ status[r] # "raised"
            /\ status[r] = "returned" =>
                  /\ Get(state[r], "answer", "") # ""
                  /\ Get(state[r], "primary_topic", "") # ""
                  /\ Has(state[r], "tool_results")

\* C2: once generate_answer has moved the cursor to END the run stops and
\* returns; END is not looked up in the step registry.
C2_EndNotLookedUp ==
    \A r \in Runs :
        (Ended(r) /\ trace[r] # <<>> /\ trace[r][Len(trace[r])] = "generate_answer") =>
            status[r] = "returned" /\ error[r] # KeyError(END)

\* C3 as stated: in scenario A against stores that start empty, no merged
\* result is found and the answer is exactly "Planned tools executed.".
C3_NoContextFound ==
    \A r \in Runs :
        (PerRunContext /\ initial[r] = ScenarioA /\ Executed(r, "generate_answer")) =>
            /\ state[r]["final_results"] = <<>>
            /\ state[r]["answer"] = "Planned tools executed."

\* C3: in scenario A against stores that start empty, memory retrieval finds
\* the record the run itself has just written, so final_results holds that
\* one memobase chunk and the answer is exactly
\* "Planned tools executed. Found supporting context.".
C3_OwnRecordFound ==
    \A r \in Runs :
        (PerRunContext /\ initial[r] = ScenarioA /\ Executed(r, "generate_answer")) =>
            /\ Len(state[r]["final_results"]) = 1
            /\ state[r]["final_results"][1]["content"] = ScenarioA.query
            /\ state[r]["final_results"][1]["source"] = "memobase"
            /\ memobase[ctxOf[r]][1]["content"] = ScenarioA.query
            /\ state[r]["answer"] = "Planned tools executed. Found supporting context."

C3_Witness ==
    \E r \in Runs :
        /\ PerRunContext /\ initial[r] = ScenarioA /\ Executed(r, "generate_answer")
        /\ state[r]["answer"] = "Planned tools executed. Found supporting context."

\* C4: in scenario A the interaction kind is act-and-store, the ingestion
\* sub-type is "task", the three storage writes run before topic
\* classification, the topic is "general", the intent is memory-personal,
\* of the three need-flags only need_memobase is set, and exactly one tool
\* call is planned: create_task with the full query as title.
C4_ScenarioAPath ==
    \A r \in Runs :
        initial[r] = ScenarioA =>
            LET s == state[r] IN
            /\ Has(s, "interaction_kind") => s["interaction_kind"] = ACT_AND_STORE
            /\ Has(s, "ingestion_type") => s["ingestion_type"] = "task"
            /\ Executed(r, "classify_topic") =>
                  /\ IsPrefix(SubSeq(StorePath, 1, 7), trace[r])
                  /\ IsPrefix(<<"memobase.write", "ragdoll.ingest",
                                "graph.update_from_entities">>, calls[r])
            /\ Has(s, "primary_topic") => s["primary_topic"] = "general"
            /\ Has(s, "retrieval_intent") => s["retrieval_intent"] = MEMORY_PERSONAL
            /\ Executed(r, "route_retrieval") =>
                  /\ s["need_memobase"] = TRUE
                  /\ s["need_vector"] = FALSE
                  /\ s["need_graph"] = FALSE
            /\ Has(s, "planned_tools") =>
                  s["planned_tools"] = <<[tool_name |-> "create_task",
                                           arguments |-> [title |-> ScenarioA.query]]>>

C4_Witness ==
    \E r \in Runs :
        /\ initial[r] = ScenarioA
        /\ Executed(r, "tool_planner")
        /\ Len(state[r]["planned_tools"]) = 1

\* C5: in scenario B the interaction kind is store-only and the ingestion
\* sub-type is "note"; after the three storage writes the cursor is at
\* generate_answer; no step outside the storage path executes; the state
\* never gets a primary_topic and the answer is exactly "Processed request.".
C5_ScenarioBPath ==
    \A r \in Runs :
        initial[r] = ScenarioB =>
            LET s == state[r] IN
            /\ Has(s, "interaction_kind") => s["interaction_kind"] = STORE_ONLY
            /\ Has(s, "ingestion_type") => s["ingestion_type"] = "note"
            /\ IsPrefix(trace[r], StorePath)
            /\ (status[r] = "running" /\ Len(trace[r]) = 7) =>
                  current[r] = "generate_answer"
            /\ ~Has(s, "primary_topic")
            /\ Has(s, "answer") => s["answer"] = "Processed request."
            /\ Ended(r) => trace[r] = StorePath /\ Has(s, "answer")

C5_Witness ==
    \E r \in Runs :
        /\ initial[r] = ScenarioB
        /\ Ended(r)
        /\ trace[r] = StorePath
        /\ state[r]["answer"] = "Processed request."

\* the pairs of runs given equal initial states and collaborators that
\* answer equal calls alike: each run has fresh collaborators of its own
SameStart(r1, r2) ==
    /\ r1 # r2
    /\ PerRunContext
    /\ Ended(r1) /\ Ended(r2)
    /\ initial[r1] = initial[r2]

NoTimestamp(metadata) ==
    [k \in (DOMAIN metadata) \ {"created_at"} |-> metadata[k]]

ChunksNoTimestamp(chunks) ==
    [i \in 1..Len(chunks) |->
        [chunks[i] EXCEPT !["metadata"] = NoTimestamp(@)]]

\* a state without the readings of time.time() it carries
Timeless(s) ==
    [k \in DOMAIN s |->
        IF k = "metadata" THEN NoTimestamp(s[k])
        ELSE IF k \in {"memobase_results", "vector_results", "graph_results",
                       "final_results"} THEN ChunksNoTimestamp(s[k])
        ELSE s[k]]

GuardClosed(r) ==
    /\ status[r] = "running"
    /\ current[r] \in DOMAIN graph.nodes
    /\ graph.nodes[current[r]].flag_key # None
    /\ Get(state[r], graph.nodes[current[r]].flag_key, FALSE) = FALSE

\* C7: a guarded step whose flag is false or absent returns the incoming
\* state with every field as it was, and calls no collaborator.
C7_GuardNoOp ==
    [][\A r \in Runs :
          (GuardClosed(r) /\ trace'[r] # trace[r]) =>
              /\ state'[r] = state[r]
              /\ calls'[r] = calls[r]
              /\ memobase' = memobase
              /\ ragdoll' = ragdoll
              /\ graphdb' = graphdb]_vars

C7_Witness ==
    \E n \in {"retrieve_memobase", "retrieve_vector", "retrieve_graph_pagerank"} :
        /\ trace[1] = <<n>>
        /\ status[1] = "returned"
        /\ ~Has(state[1], AssistantNodes[n].flag_key)
        /\ state[1] = initial[1]
        /\ state[1]["query"] = ""
        /\ memobase[1] # <<>>

\* the three source lists of a state in source order
Sources(s) ==
    Get(s, "memobase_results", <<>>) \o Get(s, "vector_results", <<>>)
        \o Get(s, "graph_results", <<>>)

\* the position in seq of the first item with the given content
FirstIndex(seq, content) ==
    CHOOSE i \in 1..Len(seq) :
        /\ seq[i]["content"] = content
        /\ \A j \in 1..(i - 1) : seq[j]["content"] # content

Reranked(r) == trace[r] = <<"rerank">> /\ status[r] = "returned"

\* C8: final_results holds each distinct content text of the three lists
\* exactly once, and the copy kept is the first one in source order memory,
\* vector, graph.
C8_MergeDedup ==
    \A r \in Runs :
        Reranked(r) =>
            LET all == Sources(initial[r])
                final == state[r]["final_results"]
            IN  /\ \A i, j \in 1..Len(final) :
                       final[i]["content"] = final[j]["content"] => i = j
                /\ \A i \in 1..Len(all) :
                       \E j \in 1..Len(final) : final[j]["content"] = all[i]["content"]
                /\ \A j \in 1..Len(final) :
                       /\ \E i \in 1..Len(all) : all[i]["content"] = final[j]["content"]
                       /\ final[j] = all[FirstIndex(all, final[j]["content"])]

C8_Witness ==
    \E r \in Runs :
        /\ Reranked(r)
        /\ \E i \in 1..Len(Get(state[r], "memobase_results", <<>>)) :
           \E j \in 1..Len(Get(state[r], "vector_results", <<>>)) :
               /\ state[r]["memobase_results"][i]["content"]
                    = state[r]["vector_results"][j]["content"]
               /\ state[r]["memobase_results"][i]["score"]
                    < state[r]["vector_results"][j]["score"]
        /\ Len(state[r]["final_results"]) < Len(Sources(state[r]))

\* C9: final_results is in non-increasing score order, and items of equal
\* score are in the order of their first occurrence in the concatenation
\* memory, vector, graph.
C9_MergeOrder ==
    \A r \in Runs :
        Reranked(r) =>
            LET all == Sources(initial[r])
                final == state[r]["final_results"]
            IN  \A i, j \in 1..Len(final) :
                    i < j =>
                        /\ final[i]["score"] >= final[j]["score"]
                        /\ final[i]["score"] = final[j]["score"] =>
                              FirstIndex(all, final[i]["content"])
                                < FirstIndex(all, final[j]["content"])

C9_Witness ==
    \E r \in Runs :
        /\ Reranked(r)
        /\ LET final == state[r]["final_results"]
           IN  /\ Len(final) = 3
               /\ final[1]["score"] = final[2]["score"]
               /\ final[1]["source"] # final[2]["source"]
               /\ final[2]["score"] > final[3]["score"]
               /\ final[3]["source"] = "memobase"

\* C10: a store-only or transform-and-store run executes exactly the storage
\* path and then generate_answer; no other step executes.
C10_StoreKindsSkipRetrieval ==
    \A r \in Runs :
        (Started(r) /\ KindOf(initial[r]) \in {STORE_ONLY, TRANSFORM_AND_STORE}) =>
            /\ IsPrefix(trace[r], StorePath)
            /\ Ended(r) => trace[r] = StorePath
            /\ \A i \in 1..Len(calls[r]) :
                   calls[r][i] \in {"memobase.write", "ragdoll.ingest",
                                    "graph.update_from_entities"}

C10_Witness ==
    \E r \in Runs :
        /\ Ended(r)
        /\ state[r]["interaction_kind"] = TRANSFORM_AND_STORE
        /\ trace[r] = StorePath
        /\ Len(calls[r]) = 3

\* the interaction kind classify_interaction gave run r (None before it)
Kind(r) == Get(state[r], "interaction_kind", None)

StorageSteps ==
    {"normalise_input", "detect_ingestion_type", "transform_for_storage",
     "write_memobase", "write_vector_indexes", "write_graph"}

\* C11: in a run whose interaction kind is act-now the step after
\* classify_interaction is classify_topic, and none of normalise_input,
\* detect_ingestion_type, transform_for_storage, write_memobase,
\* write_vector_indexes and write_graph executes.
C11_ActNowSkipsStorage ==
    \A r \in Runs :
        Kind(r) = ACT_NOW =>
            /\ (status[r] = "running" /\ Len(trace[r]) = 1) =>
                  current[r] = "classify_topic"
            /\ Len(trace[r]) >= 2 => trace[r][2] = "classify_topic"
            /\ \A n \in StorageSteps : ~Executed(r, n)
            /\ \A i \in 1..Len(calls[r]) :
                   calls[r][i] \notin {"ragdoll.ingest", "graph.update_from_entities"}

C11_Witness ==
    \E r \in Runs :
        /\ Ended(r)
        /\ state[r]["interaction_kind"] = ACT_NOW
        /\ trace[r][1] = "classify_interaction"
        /\ trace[r][2] = "classify_topic"
        /\ Executed(r, "generate_answer")

RetrievalPath ==
    <<"classify_topic", "classify_intent", "route_retrieval", "retrieve_memobase",
      "retrieve_vector", "retrieve_graph_pagerank", "rerank", "tool_planner",
      "run_tools", "ingest_tool_results", "generate_answer">>

\* the steps of an act-and-store or act-now run, from the entry on
ActPath(kind) ==
    (IF kind = ACT_NOW THEN <<"classify_interaction">> ELSE SubSeq(StorePath, 1, 7))
        \o RetrievalPath

\* the position of step n in the steps executed by run r (0: not executed)
StepIndex(r, n) ==
    IF Executed(r, n) THEN CHOOSE i \in 1..Len(trace[r]) : trace[r][i] = n ELSE 0

\* the retrieval steps of run r that were not skipped have made their call
\* and left their result list in the state
RetrievalsDone(r) ==
    /\ state[r]["need_memobase"] =>
          Has(state[r], "memobase_results") /\
          \E i \in 1..Len(calls[r]) : calls[r][i] = "memobase.search"
    /\ state[r]["need_vector"] =>
          Has(state[r], "vector_results") /\
          \E i \in 1..Len(calls[r]) : calls[r][i] = "ragdoll.search"
    /\ state[r]["need_graph"] =>
          Has(state[r], "graph_results") /\
          \E i \in 1..Len(calls[r]) : calls[r][i] = "graph.query_with_pagerank"

\* C12: in an act-and-store or act-now run the steps after storage execute
\* one at a time in the order classify_topic, classify_intent,
\* route_retrieval, retrieve_memobase, retrieve_vector,
\* retrieve_graph_pagerank, rerank, tool_planner, run_tools,
\* ingest_tool_results, generate_answer; rerank executes only after the three
\* retrieval steps have each completed or been skipped; a transition executes
\* one step of one run, the step under that run's cursor.
C12_SequentialOrder ==
    /\ [](\A r \in Runs :
            Kind(r) \in {ACT_AND_STORE, ACT_NOW} =>
                /\ IsPrefix(trace[r], ActPath(Kind(r)))
                /\ Ended(r) => trace[r] = ActPath(Kind(r))
                /\ Executed(r, "rerank") =>
                      /\ \A n \in {"retrieve_memobase", "retrieve_vector",
                                   "retrieve_graph_pagerank"} :
                             0 < StepIndex(r, n) /\ StepIndex(r, n) < StepIndex(r, "rerank")
                      /\ RetrievalsDone(r))
    /\ [][\A r \in Runs :
            trace'[r] # trace[r] =>
                /\ trace'[r] = Append(trace[r], current[r])
                /\ \A q \in Runs \ {r} : trace'[q] = trace[q]]_vars

C12_Witness ==
    \E r \in Runs :
        /\ Ended(r)
        /\ Kind(r) = ACT_AND_STORE
        /\ trace[r] = ActPath(ACT_AND_STORE)
        /\ state[r]["need_vector"] /\ state[r]["need_graph"] /\ state[r]["need_memobase"]
        /\ Len(calls[r]) >= 6

Answered(r) == trace[r] = <<"generate_answer">> /\ status[r] = "returned"

\* C13: after generate_answer the answer is "Planned tools executed." when
\* planned_tools is non-empty and final_results is empty or absent, "Found
\* supporting context." when planned_tools is empty or absent and
\* final_results is non-empty, "Planned tools executed. Found supporting
\* context." when both are non-empty and "Processed request." when neither
\* is; every other field is as it was.
C13_AnswerSynthesis ==
    \A r \in Runs :
        Answered(r) =>
            LET planned == Get(initial[r], "planned_tools", <<>>) # <<>>
                found == Get(initial[r], "final_results", <<>>) # <<>>
            IN  /\ state[r]["answer"] =
                      (IF planned /\ found
                       THEN "Planned tools executed. Found supporting context."
                       ELSE IF planned THEN "Planned tools executed."
                       ELSE IF found THEN "Found supporting context."
                       ELSE "Processed request.")
                /\ state[r] = Put(initial[r], "answer", state[r]["answer"])

C13_Witness ==
    \E r \in Runs :
        /\ Answered(r)
        /\ Get(initial[r], "planned_tools", <<>>) # <<>>
        /\ Len(Get(initial[r], "final_results", <<>>)) = 2
        /\ state[r]["answer"] = "Planned tools executed. Found supporting context."

\* run r has left ainvoke through a failing collaborator or tool call
CallFailed(r) == status[r] = "raised" /\ error[r].type = "RuntimeError"

\* C14: when a collaborator or tool call of a step raises, the run is left
\* in that same transition; the state keeps every field written by the steps
\* before with its value; and once a run has been left through a failure it
\* executes no further step, makes no further call (the failing step is not
\* retried) and its state is not touched again.
C14_FailurePropagates ==
    [][\A r \in Runs :
          /\ error'[r] # error[r] =>
                /\ status[r] = "running" /\ status'[r] = "raised"
                /\ state'[r] = state[r]
                /\ trace'[r] = trace[r]
                /\ current'[r] = current[r]
          /\ status[r] = "raised" =>
                /\ status'[r] = "raised"
                /\ error'[r] = error[r]
                /\ state'[r] = state[r]
                /\ trace'[r] = trace[r]
                /\ calls'[r] = calls[r]
                /\ current'[r] = current[r]]_vars

C14_Witness ==
    \E r \in Runs :
        /\ CallFailed(r)
        /\ error[r] = CallError("tool.create_task")
        /\ current[r] = "run_tools"
        /\ trace[r][Len(trace[r])] = "tool_planner"
        /\ Has(state[r], "final_results") /\ Has(state[r], "planned_tools")
        /\ ~Has(state[r], "tool_results")
        /\ \E q \in Runs : q # r /\ status[q] = "raised" /\ Len(trace[q]) > Len(trace[r])

\* results.get(name, {}): the value stored under a tool name in tool_results
ResultFor(results, name) ==
    IF \E i \in 1..Len(results) : results[i].name = name
    THEN results[CHOOSE i \in 1..Len(results) : results[i].name = name].result
    ELSE EmptyDict

\* the last planned call naming a tool
LastCall(planned, name) ==
    planned[CHOOSE i \in 1..Len(planned) :
                /\ planned[i]["tool_name"] = name
                /\ \A j \in (i + 1)..Len(planned) : planned[j]["tool_name"] # name]

\* the tool calls run_tools makes for a plan: the registered ones, in order
RegisteredCalls(planned, registry) ==
    LET known == SelectSeq(planned, LAMBDA c : c["tool_name"] \in registry)
    IN  [i \in 1..Len(known) |-> "tool." \o known[i]["tool_name"]]

\* C15: when run_tools meets a planned call whose tool is not registered it
\* stores {error: "tool not registered"} under that name in tool_results,
\* still calls every registered tool of the plan, in order, and stores its
\* result; the run goes on through ingest_tool_results and generate_answer,
\* and no failure comes out of these steps.
C15_UnregisteredTool ==
    \A r \in Runs :
        (graph = ToolTail /\ Started(r)) =>
            LET planned == initial[r]["planned_tools"]
                registry == tools[ctxOf[r]]
            IN  /\ IsPrefix(trace[r], <<"run_tools", "ingest_tool_results",
                                        "generate_answer">>)
                /\ status[r] = "raised" =>
                      Executed(r, "generate_answer") /\ error[r] = KeyError(END)
                /\ Ended(r) => Executed(r, "generate_answer")
                /\ Executed(r, "run_tools") =>
                      /\ \A i \in 1..Len(planned) :
                           LET name == planned[i]["tool_name"]
                           IN  ResultFor(state[r]["tool_results"], name) =
                                 IF name \in registry
                                 THEN CallTool(name, LastCall(planned, name)["arguments"])
                                 ELSE NotRegistered
                      /\ SelectSeq(calls[r], Suspends) = RegisteredCalls(planned, registry)
                /\ Executed(r, "ingest_tool_results") =>
                      /\ Len(memobase[ctxOf[r]]) = 1
                      /\ memobase[ctxOf[r]][1]["content"]
                           = Serialize(state[r]["tool_results"])

C15_Witness ==
    \E r \in Runs :
        /\ graph = ToolTail
        /\ Executed(r, "generate_answer")
        /\ Len(state[r]["tool_results"]) = 2
        /\ state[r]["tool_results"][1] =
              [name |-> "lookup_weather", result |-> NotRegistered]
        /\ state[r]["tool_results"][2] =
              [name |-> "create_task", result |-> [status |-> "created", title |-> "q"]]
        /\ calls[r] = <<"tool.create_task", "memobase.write">>

\* the successor the conditional edge of step n gives for state s, if any
Successor(n, s) ==
    LET edge == graph.conditional_edges[n]
    IN  Get(edge.mapping, Route(edge.condition, s), None)

\* C16: when the router of a conditional edge returns a label that the
\* mapping does not contain, or maps to no successor, the run ends at once
\* without an error and returns the state accumulated so far, the update of
\* the step just executed included.
C16_UnmappedLabelEnds ==
    \A r \in Runs :
        (/\ graph = PartialRouting
         /\ Executed(r, "classify_interaction")
         /\ Successor("classify_interaction", state[r]) = None) =>
            /\ status[r] = "returned"
            /\ error[r] = NoError
            /\ trace[r] = <<"classify_interaction">>
            /\ state[r] = classify_interaction(initial[r])
            /\ Has(state[r], "interaction_kind")

C16_Witness ==
    \E r \in Runs :
        /\ graph = PartialRouting
        /\ status[r] = "returned"
        /\ trace[r] = <<"classify_interaction">>
        /\ state[r]["interaction_kind"] = ACT_AND_STORE
        /\ ACT_AND_STORE \notin DOMAIN graph.conditional_edges["classify_interaction"].mapping

\* C17: the set of fields present in the state of a run never shrinks: each
\* field present before a step is still present after it.
C17_FieldsNeverRemoved ==
    [][\A r \in Runs :
          Started(r) => (DOMAIN state[r]) \subseteq (DOMAIN state'[r])]_vars

C17_Witness ==
    \E r \in Runs :
        /\ Ended(r)
        /\ trace[r] = ActPath(ACT_AND_STORE)
        /\ (DOMAIN initial[r]) = {"user_id", "query", "history"}
        /\ (DOMAIN state[r]) =
              {"user_id", "query", "history", "interaction_kind", "ingestion_type",
               "metadata", "memobase_results", "topic_candidates", "primary_topic",
               "topic_confidence", "retrieval_intent", "need_memobase",
               "need_vector", "need_graph", "vector_results", "graph_results",
               "final_results", "planned_tools", "tool_results", "answer"}

\* the step that produces each optional field
Producer ==
    [memobase_results |-> "retrieve_memobase",
     vector_results |-> "retrieve_vector",
     graph_results |-> "retrieve_graph_pagerank",
     final_results |-> "rerank",
     planned_tools |-> "tool_planner",
     tool_results |-> "run_tools"]

\* C18: each retrieval-result field (memobase_results, vector_results,
\* graph_results, final_results) and each tool field (planned_tools,
\* tool_results) is absent from the state until the retrieval, merge or tool
\* step that produces it has executed; no storage-write step makes one
\* present.
C18_AbsentUntilProduced ==
    \A r \in Runs :
        \A field \in DOMAIN Producer :
            Has(state[r], field) => Executed(r, Producer[field])

\* C19: in every run of the assembled pipeline, whatever the request and
\* whether or not a collaborator or tool call fails, each named step executes
\* at most once; a step whose call failed is not one that had executed
\* before.
C19_StepsAtMostOnce ==
    \A r \in Runs :
        /\ \A i, j \in 1..Len(trace[r]) : trace[r][i] = trace[r][j] => i = j
        /\ CallFailed(r) => ~Executed(r, current[r])
        /\ \A i \in 1..Len(trace[r]) : trace[r][i] \in DOMAIN AssistantNodes

C19_Witness ==
    \E r, q \in Runs :
        /\ Ended(r)
        /\ Len(trace[r]) = 18
        /\ CallFailed(q)
        /\ Len(trace[q]) >= 7

\* C20: when several runs are in flight on one compiled pipeline, a step of
\* one run leaves the state, the cursor and the executed steps of every other
\* run as they were, and the state it returns is determined by the run's own
\* state and by the collaborators of the context (stores, tools, clock): what
\* another run did reaches it only through the stores.
C20_RunIsolation ==
    [][\A r \in Runs :
          /\ (state'[r] # state[r] \/ current'[r] # current[r]
                \/ trace'[r] # trace[r]) =>
                \A q \in Runs \ {r} :
                    /\ state'[q] = state[q]
                    /\ current'[q] = current[q]
                    /\ trace'[q] = trace[q]
                    /\ initial'[q] = initial[q]
          /\ trace'[r] # trace[r] =>
                /\ state'[r] = CallNode(graph.nodes[current[r]], state[r], Env(r)).state
                /\ current'[r] = Advance(graph, current[r], state'[r]).current]_vars

C20_Witness ==
    /\ ~PerRunContext
    /\ status[1] = "running" /\ status[2] = "running"
    /\ Executed(1, "run_tools")
    /\ Executed(2, "retrieve_memobase")
    /\ current[1] # current[2]
    /\ state[1] # state[2]
    /\ Len(Get(state[2], "memobase_results", <<>>)) = 2
    /\ Len(Get(state[1], "memobase_results", <<>>)) = 1

\* the fields of a record in the memory store
RecordFields ==
    {"id", "user_id", "topic", "type", "content", "metadata", "created_at",
     "last_seen_at", "strength", "expires_at"}

\* the calls run r makes in a transition
NewCalls(r) == SubSeq(calls'[r], Len(calls[r]) + 1, Len(calls'[r]))

Count(seq, x) == Len(SelectSeq(seq, LAMBDA c : c = x))

RECURSIVE WritesTo(_, _)
\* the records handed to the memory store of context c by the runs 1..n; each
\* write call of the pipeline carries one record
WritesTo(c, n) ==
    IF n = 0 THEN 0
    ELSE (IF ctxOf[n] = c THEN Count(calls[n], "memobase.write") ELSE 0)
         + WritesTo(c, n - 1)

\* C22: the in-memory memory store never deduplicates: the number of stored
\* entries equals the number of records written, also when two records have
\* the same fields, id included.
C22_NoDeduplication ==
    \A c \in Ctxs : Len(memobase[c]) = WritesTo(c, NumRuns)

C22_Witness ==
    \E c \in Ctxs :
        /\ Len(memobase[c]) >= 2
        /\ \E i, j \in 1..Len(memobase[c]) : i < j /\ memobase[c][i] = memobase[c][j]

\* C23: on the engine with a finish marker set, when the router of a
\* conditional edge returns a label mapped to the finish marker, the run
\* stops and returns the state; the finish marker is not looked up as a step.
C23_FinishAfterConditional ==
    \A r \in Runs :
        (/\ graph = FinishRouting
         /\ Executed(r, "classify_interaction")
         /\ Successor("classify_interaction", state[r]) = graph.finish_node) =>
            /\ status[r] # "raised"
            /\ error[r] # KeyError(END)
            /\ Ended(r) => (status[r] = "returned" /\ trace[r] = <<"classify_interaction">>)

\* run r is at a guarded step whose flag is true
GuardOpen(r) ==
    /\ status[r] = "running"
    /\ current[r] \in DOMAIN graph.nodes
    /\ graph.nodes[current[r]].flag_key # None
    /\ Get(state[r], graph.nodes[current[r]].flag_key, FALSE) = TRUE

\* what the step wrapped by the guard at the cursor of run r does on the
\* state of run r
Wrapped(r) == Apply(graph.nodes[current[r]].fn, state[r], Env(r))

\* C24: a guarded step whose flag is true invokes the wrapped step once on
\* the incoming state and returns exactly the state the wrapped step
\* returns; when the call of the wrapped step fails, the guarded step fails
\* with that failure.
C24_GuardDelegates ==
    [][\A r \in Runs :
          GuardOpen(r) =>
              /\ trace'[r] # trace[r] =>
                    /\ state'[r] = Wrapped(r).state
                    /\ NewCalls(r) = Wrapped(r).calls
                    /\ Len(NewCalls(r)) = 1
                    /\ memobase'[ctxOf[r]] = Wrapped(r).mem
                    /\ ragdoll'[ctxOf[r]] = Wrapped(r).rag
                    /\ graphdb'[ctxOf[r]] = Wrapped(r).gdb
              /\ error'[r] # error[r] =>
                    /\ error'[r] = CallError(Wrapped(r).calls[1])
                    /\ status'[r] = "raised"
                    /\ NewCalls(r) = Wrapped(r).calls
                    /\ state'[r] = state[r]]_vars

C24_Witness ==
    /\ graph = OneStep(AssistantNodes["retrieve_memobase"])
    /\ status[1] = "returned"
    /\ Get(initial[1], "need_memobase", FALSE) = TRUE
    /\ ~Has(initial[1], "memobase_results")
    /\ Len(Get(state[1], "memobase_results", <<>>)) = 1
    /\ calls[1] = <<"memobase.search">>

\* the need-flag that guards the retrieval step of each source
FlagOf == [memobase |-> "need_memobase", vector |-> "need_vector", graph |-> "need_graph"]

\* C25: in the assembled pipeline, a retrieval step skipped by its guard
\* (its need-flag false) contributes no chunk of its source to the merged
\* final_results.
C25_SkippedContributesNothing ==
    \A r \in Runs :
        (graph = build_assistant_graph /\ Executed(r, "rerank")) =>
            \A src \in DOMAIN FlagOf :
                Get(state[r], FlagOf[src], FALSE) = FALSE =>
                    \A i \in 1..Len(Get(state[r], "final_results", <<>>)) :
                        state[r]["final_results"][i]["source"] # src

\* the four members of InteractionKind
KindLabels == {STORE_ONLY, TRANSFORM_AND_STORE, ACT_AND_STORE, ACT_NOW}

\* the label the router of step n returns on state s
LabelAt(n, s) == Route(graph.conditional_edges[n].condition, s)

\* C26: in the assembled pipeline both routers are total: the label returned
\* after classify_interaction and after write_graph is one of the four
\* interaction kinds and maps to a registered step, which the run moves to;
\* interaction_kind never changes once classify_interaction has set it; no
\* run ends at a routed step; and no act-now run reaches write_graph.
C26_RoutersTotal ==
    /\ [][\A r \in Runs :
            (status[r] = "running" /\ current[r] \in DOMAIN graph.conditional_edges
             /\ trace'[r] = Append(trace[r], current[r])) =>
                /\ LabelAt(current[r], state'[r]) \in KindLabels
                /\ LabelAt(current[r], state'[r]) = (Kind(r))'
                /\ Successor(current[r], state'[r]) \in DOMAIN graph.nodes
                /\ current'[r] = Successor(current[r], state'[r])
                /\ status'[r] = "running"]_vars
    /\ [][\A r \in Runs :
            Executed(r, "classify_interaction") => (Kind(r))' = Kind(r)]_vars
    /\ [](\A r \in Runs :
            /\ Executed(r, "write_graph") => Kind(r) \in KindLabels \ {ACT_NOW}
            /\ (Ended(r) /\ trace[r] # <<>>) =>
                  trace[r][Len(trace[r])] \notin DOMAIN graph.conditional_edges)

C26_Witness ==
    \E r, q \in Runs :
        /\ Kind(r) = STORE_ONLY /\ Executed(r, "write_graph")
        /\ current[r] = "generate_answer" /\ status[r] = "running"
        /\ Kind(q) = ACT_NOW /\ Executed(q, "classify_topic")
        /\ ~Executed(q, "write_graph")

\* the three need-flags of a state, in the order memory, vector, graph
Flags(s) == <<Get(s, "need_memobase", None), Get(s, "need_vector", None),
              Get(s, "need_graph", None)>>

\* the flags the specification gives for each intent
FlagTable ==
    (MEMORY_PERSONAL :> <<TRUE, FALSE, FALSE>>) @@
    (FACT_LOOKUP :> <<FALSE, TRUE, FALSE>>) @@
    (MULTI_HOP :> <<FALSE, TRUE, TRUE>>) @@
    (MIXED :> <<TRUE, TRUE, TRUE>>)

\* C27: route_retrieval sets the three need-flags from the intent alone
\* (memory-personal: memory only; fact-lookup: vector only; multi-hop: vector
\* and graph; mixed: all three) and changes nothing else; after it at least
\* one flag is true, and no later step changes the flags.
C27_FlagsFromIntent ==
    /\ [][\A r \in Runs :
            (status[r] = "running" /\ current[r] = "route_retrieval"
             /\ trace'[r] = Append(trace[r], current[r])) =>
                /\ Flags(state'[r]) =
                       FlagTable[Get(state[r], "retrieval_intent", MEMORY_PERSONAL)]
                /\ DOMAIN state'[r] = DOMAIN state[r] \cup FlagKeys
                /\ \A k \in DOMAIN state[r] \ FlagKeys : state'[r][k] = state[r][k]]_vars
    /\ [](\A r \in Runs :
            Executed(r, "route_retrieval") => \E i \in 1..3 : Flags(state[r])[i] = TRUE)
    /\ [][\A r \in Runs :
            Executed(r, "route_retrieval") => Flags(state'[r]) = Flags(state[r])]_vars

C27_Witness ==
    /\ graph = build_assistant_graph
    /\ Executed(1, "rerank")
    /\ Get(state[1], "retrieval_intent", None) = FACT_LOOKUP
    /\ Flags(state[1]) = <<FALSE, TRUE, FALSE>>

\* the calls that write to a store
WriteCalls == {"memobase.write", "ragdoll.ingest", "graph.update_from_entities"}

\* C28: ingest_tool_results writes exactly one record to the memory store
\* when tool_results is non-empty, and writes nothing and returns the state
\* unchanged when tool_results is empty or absent; an act-now run that plans
\* no tool makes no write to any store; a run writes at most two records to
\* the memory store.
C28_IngestWritesOnce ==
    /\ [][\A r \in Runs :
            (status[r] = "running" /\ current[r] = "ingest_tool_results"
             /\ trace'[r] = Append(trace[r], current[r])) =>
                /\ ragdoll' = ragdoll /\ graphdb' = graphdb
                /\ IF Get(state[r], "tool_results", <<>>) # <<>>
                   THEN /\ Len(memobase'[ctxOf[r]]) = Len(memobase[ctxOf[r]]) + 1
                        /\ IsPrefix(memobase[ctxOf[r]], memobase'[ctxOf[r]])
                        /\ memobase'[ctxOf[r]][Len(memobase'[ctxOf[r]])]["type"]
                               = "tool_result"
                        /\ NewCalls(r) = <<"memobase.write">>
                   ELSE /\ memobase' = memobase
                        /\ state'[r] = state[r]
                        /\ NewCalls(r) = <<>>]_vars
    /\ [](\A r \in Runs :
            /\ (graph = build_assistant_graph /\ Kind(r) = ACT_NOW
                /\ Get(state[r], "planned_tools", <<>>) = <<>>) =>
                   /\ \A i \in 1..Len(calls[r]) : calls[r][i] \notin WriteCalls
                   /\ memobase[ctxOf[r]] = <<>> /\ ragdoll[ctxOf[r]] = EmptyDict
                   /\ graphdb[ctxOf[r]] = EmptyGraphStore
            /\ Count(calls[r], "memobase.write") <= 2
            /\ (graph = build_assistant_graph /\ status[r] # "idle") =>
                   Len(memobase[ctxOf[r]]) = Count(calls[r], "memobase.write"))

C28_Witness ==
    /\ graph = build_assistant_graph
    /\ Executed(1, "ingest_tool_results")
    /\ Len(Get(state[1], "tool_results", <<>>)) = 1
    /\ Len(memobase[1]) = 2
    /\ memobase[1][1]["type"] # "tool_result"
    /\ memobase[1][2]["type"] = "tool_result"

\* the calls of `call` made by run r that did not fail
Succeeded(r, call) ==
    Count(calls[r], call) - (IF CallFailed(r) /\ error[r].key = call THEN 1 ELSE 0)

RECURSIVE SucceededIn(_, _, _)
\* the calls of `call` on context c by the runs 1..n that did not fail
SucceededIn(c, call, n) ==
    IF n = 0 THEN 0
    ELSE (IF ctxOf[n] = c THEN Succeeded(n, call) ELSE 0) + SucceededIn(c, call, n - 1)

RECURSIVE Documents(_, _)
\* the number of documents held in the collections `names` of a vector store
Documents(collections, names) ==
    IF names = {} THEN 0
    ELSE LET name == CHOOSE n \in names : TRUE
         IN  Len(collections[name]) + Documents(collections, names \ {name})

\* C29: the storage writes are not transactional: every store holds what the
\* calls that succeeded wrote, whatever failed afterwards; a run that fails
\* at write_vector_indexes has made its memory write and no graph update, a
\* run that fails at write_graph has made its memory and vector writes; and
\* no step, failing or not, removes anything from a store.
C29_NoRollback ==
    /\ [](\A c \in Ctxs :
            /\ Len(memobase[c]) = SucceededIn(c, "memobase.write", NumRuns)
            /\ Documents(ragdoll[c], DOMAIN ragdoll[c])
                   = SucceededIn(c, "ragdoll.ingest", NumRuns)
            /\ Len(graphdb[c].doc_refs)
                   = SucceededIn(c, "graph.update_from_entities", NumRuns))
    /\ [](\A r \in Runs :
            /\ (CallFailed(r) /\ error[r].key = "ragdoll.ingest") =>
                   /\ Succeeded(r, "memobase.write") = 1
                   /\ Count(calls[r], "graph.update_from_entities") = 0
            /\ (CallFailed(r) /\ error[r].key = "graph.update_from_entities") =>
                   /\ Succeeded(r, "memobase.write") = 1
                   /\ Succeeded(r, "ragdoll.ingest") = 1)
    /\ [][\A c \in Ctxs :
            /\ IsPrefix(memobase[c], memobase'[c])
            /\ DOMAIN ragdoll[c] \subseteq DOMAIN ragdoll'[c]
            /\ \A name \in DOMAIN ragdoll[c] :
                   IsPrefix(ragdoll[c][name], ragdoll'[c][name])
            /\ IsPrefix(graphdb[c].doc_refs, graphdb'[c].doc_refs)
            /\ IsPrefix(graphdb[c].entities, graphdb'[c].entities)]_vars

C29_Witness ==
    \E r, q \in Runs :
        /\ CallFailed(r) /\ error[r].key = "ragdoll.ingest"
        /\ CallFailed(q) /\ error[q].key = "graph.update_from_entities"
        /\ Len(memobase[1]) = 2
        /\ Documents(ragdoll[1], DOMAIN ragdoll[1]) = 1
        /\ graphdb[1].doc_refs = <<>>

\* the hits are in non-increasing score order
ScoresDescend(hits) ==
    \A i \in 1..Len(hits) : \A j \in i..Len(hits) : hits[i]["score"] >= hits[j]["score"]

\* every hit comes from a record of the store owned by user_id, of the given
\* topic when one is given, and no record of another user has its content
FromOwn(hits, records, user_id, topic) ==
    \A i \in 1..Len(hits) :
        /\ \E j \in 1..Len(records) :
               /\ records[j]["user_id"] = user_id
               /\ records[j]["content"] = hits[i]["content"]
               /\ records[j]["strength"] = hits[i]["score"]
               /\ records[j]["metadata"] = hits[i]["metadata"]
               /\ (topic # None) => records[j]["topic"] = topic
        /\ \A j \in 1..Len(records) :
               records[j]["content"] = hits[i]["content"] =>
                   records[j]["user_id"] = user_id

\* C30: owner isolation of the in-memory memory store: after any sequence of
\* writes by any users, a search for a user returns at most k hits, each from
\* a stored record owned by that user (and of the given topic when one is
\* given), in non-increasing score order; the chunks retrieve_memobase puts
\* into the state of a run are such hits for the user of the run.
C30_OwnerIsolation ==
    \A r \in Runs :
        (graph = OneStep(AssistantNodes["retrieve_memobase"])
         /\ Get(initial[r], "need_memobase", FALSE) = TRUE
         /\ Has(initial[r], "query")) =>
            LET user == initial[r]["user_id"]
                topic == Get(initial[r], "primary_topic", None)
                records == memobase[ctxOf[r]]
            IN  /\ \A k \in 0..K :
                       LET hits == MemobaseSearch(records, user, initial[r]["query"],
                                                  topic, k)
                       IN  /\ Len(hits) <= k
                           /\ ScoresDescend(hits)
                           /\ FromOwn(hits, records, user, topic)
                /\ status[r] = "returned" =>
                       LET chunks == state[r]["memobase_results"]
                       IN  /\ Len(chunks) <= K
                           /\ ScoresDescend(chunks)
                           /\ FromOwn(chunks, records, user, topic)

C30_Witness ==
    /\ graph = OneStep(AssistantNodes["retrieve_memobase"])
    /\ status[1] = "returned"
    /\ Len(memobase[1]) = 7
    /\ Get(initial[1], "user_id", None) = "tester"
    /\ Get(initial[1], "query", None) = ""
    /\ ~Has(initial[1], "primary_topic")
    /\ Len(Get(state[1], "memobase_results", <<>>)) = K

====
